---- MODULE Spec2Model ----
(***************************************************************************)
(* Delegation state machine and sharded stats ledger of the staking API    *)
(* service.  The stats lock registry and the stats ledger are translated   *)
(* from the db package (stats.go), the delegation service from             *)
(* internal/v1/service/delegation.go.  The queue handlers and the          *)
(* delegation collection's conditional updates are modelled from the       *)
(* design document, sections 4.1 and 4.2.                                  *)
(***************************************************************************)
EXTENDS Integers, FiniteSets, Sequences, TLC

(* ------------------------------ bounds --------------------------------- *)

\* messages that may be queued or in flight at the same time
MaxQueue == 2

\* db.cfg.LogicalShardCount
LogicalShardCount == 2

\* width of the machine word the amounts are converted in (64 in the code)
WordBits == 6

\* how far a redeployment may raise db.cfg.LogicalShardCount
MaxShardIncrease == 1

\* the largest number of documents on one page of a listing
MaxPaginationLimit == 1

\* the longest list of provider keys a read is called with
MaxKeys == 3

\* the largest db.cfg.DbBatchSizeLimit
MaxBatchSizeLimit == 2

\* the longest provider key, and the longest document id, taken as strings
MaxPkLen == 2
MaxIdLen == 4

Workers == {"w1", "w2"}
Hashes == {"h1", "h2"}
Providers == {"fpA", "fpB"}

\* the staking transactions whose events the handler specifications deliver
HandledHashes == {"h1"}

(* ------------------------- event contents ------------------------------ *)

\* ActiveStakingEvent.FinalityProviderPkHex of the staking tx
FinalityProviderPkHex(h) == IF h = "h1" THEN "fpA" ELSE "fpB"

\* ActiveStakingEvent.StakingValue of the staking tx (one value v for all)
StakingValue(h) == 3

EventKinds ==
  {"active", "unbonding", "expired_active", "expired_unbonding", "withdraw"}
Messages == EventKinds \X Hashes
NoMsg == <<"none", "none">>
Kind(m) == m[1]
HashOf(m) == m[2]

(* ------------------------------ types ---------------------------------- *)

\* a key with no document in its collection
NoDoc == [absent |-> TRUE]
NoState == "absent"

\* types.DelegationState
Active == "active"
UnbondingRequested == "unbonding_requested"
Unbonded == "unbonded"
Withdrawn == "withdrawn"

\* lifecycle order of section 4.2
Rank(s) ==
  CASE s = NoState -> 0
    [] s = Active -> 1
    [] s = UnbondingRequested -> 2
    [] s = Unbonded -> 3
    [] s = Withdrawn -> 4

StatsFamilies == {"overall_stats", "finality_provider_stats"}
Labels == {Active, Unbonded}

VARIABLES
  delegations,   \* delegation collection: hash -> NoDoc or document
  statsLock,     \* stats lock collection: lock id -> NoDoc or document
  overallStats,  \* overall stats collection: shard id -> NoDoc or document
  fpStats,       \* finality provider stats collection: id -> NoDoc or document
  ledger,        \* history: number of committed shard upserts per (hash, label, family)
  queue,         \* messages waiting in the queues
  pc,            \* position of each worker in its handler
  msg,           \* message each worker is processing
  lockDoc,       \* stats lock document each worker read
  cfg,           \* db.cfg of the running deployment
  call           \* the last query served and what it returned

vars ==
  <<delegations, statsLock, overallStats, fpStats, ledger, queue, pc, msg, lockDoc, cfg, call>>
stores == <<delegations, statsLock, overallStats, fpStats, ledger>>

\* logical shard numbers 0 .. db.cfg.LogicalShardCount-1 of the running deployment
Shards == 0 .. (cfg.LogicalShardCount - 1)

\* every shard number a deployment may ever use
AllShards == 0 .. (LogicalShardCount + MaxShardIncrease - 1)

\* no query served yet
NoCall == [op |-> "none"]

(* ------------------------- stats lock registry ------------------------- *)

\* constructStatsLockId: stakingTxHashHex + ":" + state
constructStatsLockId(stakingTxHashHex, state) == <<stakingTxHashHex, state>>

LockIds == {constructStatsLockId(h, s) : h \in Hashes, s \in Labels}

\* faulty variant: the default document is created with a flag already set
NewStatsLockDocumentMutantFlagSet ==
  [overall_stats |-> TRUE, staker_stats |-> FALSE, finality_provider_stats |-> FALSE]
\* model.NewStatsLockDocument(id, false, false, false)
NewStatsLockDocument ==
  [overall_stats |-> FALSE, staker_stats |-> FALSE, finality_provider_stats |-> FALSE]

\* faulty variant: the default document is written with $set, also over an existing record
GetOrCreateStatsLockMutantReset(locks, id) ==
  [locks EXCEPT ![id] = NewStatsLockDocument]
\* GetOrCreateStatsLock: FindOneAndUpdate, upsert, $setOnInsert, return After
GetOrCreateStatsLock(locks, id) ==
  IF locks[id] = NoDoc THEN [locks EXCEPT ![id] = NewStatsLockDocument] ELSE locks

\* faulty variant: the filter without the fieldName: false condition
LockFilterMatchesMutantNoField(locks, id, fieldName) == locks[id] # NoDoc
\* updateStatsLockByFieldName: the filter {_id: id, fieldName: false}
LockFilterMatches(locks, id, fieldName) ==
  /\ locks[id] # NoDoc
  /\ locks[id][fieldName] = FALSE

\* faulty variant: the update sets the flag of every family of the record
SetLockFieldMutantAllFlags(locks, id, fieldName) ==
  [locks EXCEPT ![id] = [g \in DOMAIN locks[id] |-> TRUE]]
\* updateStatsLockByFieldName: the update {$set: {fieldName: true}}
SetLockField(locks, id, fieldName) == [locks EXCEPT ![id][fieldName] = TRUE]

(* ----------------------------- stats ledger ---------------------------- *)

\* int64(amount) of a uint64 amount, in words of WordBits bits
Int64(amount) ==
  IF amount < 2 ^ (WordBits - 1) THEN amount ELSE amount - 2 ^ WordBits

\* the $inc document of IncrementOverallStats / IncrementFinalityProviderStats
IncrementUpdate(amount) ==
  [active_tvl |-> Int64(amount), total_tvl |-> Int64(amount),
   active_delegations |-> 1, total_delegations |-> 1]

\* -x of an int64 x, in words of WordBits bits: the least value is its own negation
Neg64(x) == IF x = -(2 ^ (WordBits - 1)) THEN x ELSE -x

\* faulty variant: the removal also decrements the totals
SubtractUpdateMutantTotals(amount) ==
  [active_tvl |-> -Int64(amount), total_tvl |-> -Int64(amount),
   active_delegations |-> -1, total_delegations |-> -1]
\* the $inc document of SubtractOverallStats / SubtractFinalityProviderStats
SubtractUpdate(amount) ==
  [active_tvl |-> Neg64(Int64(amount)), total_tvl |-> 0,
   active_delegations |-> -1, total_delegations |-> 0]

ZeroStats ==
  [active_tvl |-> 0, total_tvl |-> 0, active_delegations |-> 0, total_delegations |-> 0]

AddStats(a, b) ==
  [active_tvl |-> a.active_tvl + b.active_tvl,
   total_tvl |-> a.total_tvl + b.total_tvl,
   active_delegations |-> a.active_delegations + b.active_delegations,
   total_delegations |-> a.total_delegations + b.total_delegations]

\* UpdateOne(filter {_id: id}, {$inc: ...}, upsert): a missing document starts at 0
UpdateOneUpsert(coll, id, upd) ==
  [coll EXCEPT ![id] = IF coll[id] = NoDoc THEN upd ELSE AddStats(coll[id], upd)]

\* faulty variant: the shard number is drawn for another shard count than the
\* one the deployment reads with
generateOverallStatsIdMutantOtherCount == AllShards
\* generateOverallStatsId: the values rand.Intn(LogicalShardCount) can take
generateOverallStatsId == Shards
OverallStatsIds == AllShards

\* the id "pk:shard" of a finality provider stats document
FinalityProviderStatsId(pk, shard) == <<pk, shard>>

\* generateFinalityProviderStatsId: the shard numbers rand.Intn(LogicalShardCount)
\* can take
generateFinalityProviderShard == Shards

FpStatsIds == {FinalityProviderStatsId(pk, i) : pk \in Providers, i \in AllShards}

RECURSIVE SumDocs(_, _)
SumDocs(coll, ids) ==
  IF ids = {} THEN ZeroStats
  ELSE LET id == CHOOSE x \in ids : TRUE
       IN  AddStats(IF coll[id] = NoDoc THEN ZeroStats ELSE coll[id],
                    SumDocs(coll, ids \ {id}))

\* faulty variant: the loop stops one shard early
GetOverallStatsMutantOffByOne ==
  SumDocs(overallStats, {i \in DOMAIN overallStats : i \in 0 .. (cfg.LogicalShardCount - 2)})
\* GetOverallStats: find the shards "0" .. "LogicalShardCount-1" and sum them
GetOverallStats == SumDocs(overallStats, {i \in DOMAIN overallStats : i \in Shards})

\* faulty variant: the ids of every provider's shards, whatever provider is asked for
getAllShardedFinalityProviderIdMutantAllProviders(pk) ==
  {FinalityProviderStatsId(p, i) : p \in Providers, i \in Shards}
\* getAllShardedFinalityProviderId for one provider
getAllShardedFinalityProviderId(pk) == {FinalityProviderStatsId(pk, i) : i \in Shards}

\* FindFinalityProviderStatsByPkHex, the entry of one provider
FindFinalityProviderStats(pk) == SumDocs(fpStats, getAllShardedFinalityProviderId(pk))

\* extractFinalityProviderPkHexFromStatsId: the part of the id before the ":"
extractFinalityProviderPkHexFromStatsId(id) == id[1]

\* FindFinalityProviderStatsByPkHex for a list that names each of the
\* providers pkHex once: find the documents with an id in the sharded ids of
\* the providers asked for, and sum them per provider extracted from the id; a
\* provider without a document has no entry
FindFinalityProviderStatsByPkHex(pkHex) ==
  LET ids == UNION {getAllShardedFinalityProviderId(pk) : pk \in pkHex}
      found == {id \in DOMAIN fpStats : id \in ids /\ fpStats[id] # NoDoc}
      keys == {extractFinalityProviderPkHexFromStatsId(id) : id \in found}
  IN  [pk \in keys |->
         SumDocs(fpStats, {id \in found : extractFinalityProviderPkHexFromStatsId(id) = pk})]


\* faulty variant: the flip is an upsert, so a missing record is created with
\* the flag set
updateStatsLockByFieldNameMutantUpserts(locks, stakingTxHashHex, state, fieldName) ==
  LET id == constructStatsLockId(stakingTxHashHex, state) IN
    IF locks[id] = NoDoc
      THEN [statsLock |-> [locks EXCEPT ![id] =
                             [NewStatsLockDocument EXCEPT ![fieldName] = TRUE]],
            err |-> "nil"]
    ELSE IF locks[id][fieldName] = FALSE
      THEN [statsLock |-> SetLockField(locks, id, fieldName), err |-> "nil"]
    ELSE [statsLock |-> locks, err |-> "not_found"]
\* faulty variant: MatchedCount is not checked
updateStatsLockByFieldNameMutantIgnoresMatchedCount(locks, stakingTxHashHex, state, fieldName) ==
  LET id == constructStatsLockId(stakingTxHashHex, state) IN
    [statsLock |-> IF locks[id] # NoDoc THEN SetLockField(locks, id, fieldName) ELSE locks,
     err |-> "nil"]
\* updateStatsLockByFieldName: flip the flag, or NotFoundError when no document
\* matches the filter
updateStatsLockByFieldName(locks, stakingTxHashHex, state, fieldName) ==
  LET id == constructStatsLockId(stakingTxHashHex, state) IN
    IF LockFilterMatches(locks, id, fieldName)
      THEN [statsLock |-> SetLockField(locks, id, fieldName), err |-> "nil"]
      ELSE [statsLock |-> locks, err |-> "not_found"]

\* faulty variant: the writes of a failed callback are kept
WithTransactionMutantNoRollback(before, after) == after
\* session.WithTransaction: the writes of the callback are committed when it
\* returns nil and rolled back when it returns an error
WithTransaction(before, after) == IF after.err = "nil" THEN after ELSE before @@ after

\* faulty variant: the error of the lock flip is not looked at
transactionWorkMutantIgnoresLockError(locks, shards, state, stakingTxHashHex, fieldName, shardId, upd, upsertOk) ==
  LET flip == updateStatsLockByFieldName(locks, stakingTxHashHex, state, fieldName) IN
    IF ~upsertOk
      THEN [statsLock |-> flip.statsLock, shards |-> shards, err |-> "transient"]
      ELSE [statsLock |-> flip.statsLock,
            shards |-> UpdateOneUpsert(shards, shardId, upd), err |-> "nil"]
\* transactionWork of updateOverallStats / updateFinalityProviderStats: the lock
\* flip, then the upsert of one shard document; upsertOk says whether the
\* upsert succeeds
transactionWork(locks, shards, state, stakingTxHashHex, fieldName, shardId, upd, upsertOk) ==
  LET flip == updateStatsLockByFieldName(locks, stakingTxHashHex, state, fieldName) IN
    IF flip.err # "nil"
      THEN [statsLock |-> locks, shards |-> shards, err |-> flip.err]
    ELSE IF ~upsertOk
      THEN [statsLock |-> flip.statsLock, shards |-> shards, err |-> "transient"]
    ELSE [statsLock |-> flip.statsLock,
          shards |-> UpdateOneUpsert(shards, shardId, upd), err |-> "nil"]

\* updateOverallStats; shard is the value of generateOverallStatsId
updateOverallStats(locks, shards, state, stakingTxHashHex, upd, shard, upsertOk) ==
  WithTransaction(
    [statsLock |-> locks, shards |-> shards],
    transactionWork(locks, shards, state, stakingTxHashHex, "overall_stats",
                    shard, upd, upsertOk))

\* updateFinalityProviderStats; shard is the random number of
\* generateFinalityProviderStatsId
updateFinalityProviderStats(locks, shards, state, stakingTxHashHex, fpPkHex, upd, shard, upsertOk) ==
  WithTransaction(
    [statsLock |-> locks, shards |-> shards],
    transactionWork(locks, shards, state, stakingTxHashHex, "finality_provider_stats",
                    FinalityProviderStatsId(fpPkHex, shard), upd, upsertOk))

IncrementOverallStats(locks, shards, stakingTxHashHex, amount, shard, upsertOk) ==
  updateOverallStats(locks, shards, Active, stakingTxHashHex,
                     IncrementUpdate(amount), shard, upsertOk)

\* faulty variant: the removal is applied without the lock flip
SubtractOverallStatsMutantNotIdempotent(locks, shards, stakingTxHashHex, amount, shard, upsertOk) ==
  [statsLock |-> locks,
   shards |-> UpdateOneUpsert(shards, shard, SubtractUpdate(amount)),
   err |-> "nil"]
SubtractOverallStats(locks, shards, stakingTxHashHex, amount, shard, upsertOk) ==
  updateOverallStats(locks, shards, Unbonded, stakingTxHashHex,
                     SubtractUpdate(amount), shard, upsertOk)

IncrementFinalityProviderStats(locks, shards, stakingTxHashHex, fpPkHex, amount, shard, upsertOk) ==
  updateFinalityProviderStats(locks, shards, Active, stakingTxHashHex, fpPkHex,
                              IncrementUpdate(amount), shard, upsertOk)

\* faulty variant: the provider's removal is applied without the lock flip
SubtractFinalityProviderStatsMutantNotIdempotent(locks, shards, stakingTxHashHex, fpPkHex, amount, shard, upsertOk) ==
  [statsLock |-> locks,
   shards |-> UpdateOneUpsert(shards, FinalityProviderStatsId(fpPkHex, shard),
                              SubtractUpdate(amount)),
   err |-> "nil"]
SubtractFinalityProviderStats(locks, shards, stakingTxHashHex, fpPkHex, amount, shard, upsertOk) ==
  updateFinalityProviderStats(locks, shards, Unbonded, stakingTxHashHex, fpPkHex,
                              SubtractUpdate(amount), shard, upsertOk)

(* --------------------------- delegation store -------------------------- *)

\* document inserted by createActive
NewDelegationDocument == [state |-> Active]

StateOf(h) == IF delegations[h] = NoDoc THEN NoState ELSE delegations[h].state

\* V1DBClient.SaveActiveStakingDelegation: insert, duplicate key when present
DbSaveActiveStakingDelegation(dels, h) ==
  IF dels[h] = NoDoc THEN [dels EXCEPT ![h] = NewDelegationDocument] ELSE dels

DbSaveErrors(dels, h) ==
  IF dels[h] = NoDoc THEN {"nil", "transient"} ELSE {"duplicate_key", "transient"}

\* faulty variant: the duplicate key is reported as an internal error
SaveActiveStakingDelegationMutantDupFails(dbErr) ==
  IF dbErr = "nil" THEN "nil" ELSE "internal_error"
\* V1Service.SaveActiveStakingDelegation: the error it returns for a db error
SaveActiveStakingDelegation(dbErr) ==
  IF dbErr = "nil" THEN "nil"
  ELSE IF dbErr = "duplicate_key" THEN "nil"
  ELSE "internal_error"

\* V1Service.IsDelegationPresent: not-found is (false, nil)
IsDelegationPresent(h) == delegations[h] # NoDoc

\* V1Service.GetDelegation: the document, or the NotFound error
GetDelegation(h) == IF delegations[h] = NoDoc THEN "not_found" ELSE "nil"

\* faulty variant: the tx type of the event is not looked at
QualifiedToUnbondedMutantIgnoresTxType(kind, doc) == doc.state = Active
\* states from which a timelock-expired event of the tx type moves to Unbonded
QualifiedToUnbonded(kind, doc) ==
  IF kind = "expired_active" THEN doc.state = Active
  ELSE doc.state = UnbondingRequested

\* states in which a timelock-expired event is a duplicate
OutdatedForUnbonded(doc) == doc.state \in {Unbonded, Withdrawn}

\* faulty variant: every existing delegation may be withdrawn
QualifiedToWithdrawMutantAny(doc) == doc.state \in {Active, UnbondingRequested, Unbonded}
\* states from which a withdraw event moves to Withdrawn
QualifiedToWithdraw(doc) == doc.state = Unbonded

\* faulty variant: a delegation that has not expired counts as a duplicate
OutdatedForWithdrawMutantEarly(doc) ==
  doc.state \in {Active, UnbondingRequested, Withdrawn}
\* faulty variant: no withdraw event counts as a duplicate
OutdatedForWithdrawMutantNever(doc) == FALSE
\* states in which a withdraw event is a duplicate
OutdatedForWithdraw(doc) == doc.state = Withdrawn

\* states in which an unbonding-confirmed event is accepted
QualifiedToUnbonding(doc) == doc.state \in {Active, UnbondingRequested}

\* faulty variant: the state is set whatever the current state
TransitionToUnbondedStateMutantFromAny(dels, h, kind) ==
  [dels EXCEPT ![h].state = Unbonded]
\* setState(hash, newState), guarded by the state the transition requires
TransitionToUnbondedState(dels, h, kind) ==
  IF QualifiedToUnbonded(kind, dels[h]) THEN [dels EXCEPT ![h].state = Unbonded] ELSE dels

\* faulty variant: the document of a withdrawn delegation is removed
TransitionToWithdrawnStateMutantDeletes(dels, h) ==
  IF QualifiedToWithdraw(dels[h]) THEN [dels EXCEPT ![h] = NoDoc] ELSE dels
\* setState(hash, Withdrawn), guarded by state Unbonded
TransitionToWithdrawnState(dels, h) ==
  IF QualifiedToWithdraw(dels[h]) THEN [dels EXCEPT ![h].state = Withdrawn] ELSE dels

\* setUnbonding(hash, unbondingFields): the document carries the unbonding fields
\* exactly when its state is UnbondingRequested
TransitionToUnbondingState(dels, h) ==
  IF QualifiedToUnbonding(dels[h])
    THEN [dels EXCEPT ![h].state = UnbondingRequested] ELSE dels

(* ------------------------------- queues -------------------------------- *)

InFlight == Cardinality({w \in Workers : msg[w] # NoMsg})

RECURSIVE Queued(_)
Queued(ms) ==
  IF ms = {} THEN 0
  ELSE LET m == CHOOSE x \in ms : TRUE IN queue[m] + Queued(ms \ {m})

\* lifecycle label of the stats a message's handler records
LabelOf(m) == IF Kind(m) = "active" THEN Active ELSE Unbonded

NoLock == [read |-> FALSE]

Init ==
  /\ delegations = [h \in Hashes |-> NoDoc]
  /\ statsLock = [id \in LockIds |-> NoDoc]
  /\ overallStats = [i \in OverallStatsIds |-> NoDoc]
  /\ fpStats = [id \in FpStatsIds |-> NoDoc]
  /\ ledger = [k \in Hashes \X Labels \X StatsFamilies |-> 0]
  /\ queue = [m \in Messages |-> 0]
  /\ pc = [w \in Workers |-> "idle"]
  /\ msg = [w \in Workers |-> NoMsg]
  /\ lockDoc = [w \in Workers |-> NoLock]
  /\ cfg = [LogicalShardCount |-> LogicalShardCount]
  /\ call = NoCall

\* the indexer emits (or the transport redelivers) an event
Send(m) ==
  /\ Queued(Messages) + InFlight < MaxQueue
  /\ queue' = [queue EXCEPT ![m] = @ + 1]
  /\ UNCHANGED <<stores, pc, msg, lockDoc, cfg, call>>

\* the unbonding API request of a staker
UnbondDelegation(h) ==
  /\ delegations[h] # NoDoc
  /\ delegations[h].state = Active
  /\ delegations' = [delegations EXCEPT ![h].state = UnbondingRequested]
  /\ UNCHANGED <<statsLock, overallStats, fpStats, ledger, queue, pc, msg, lockDoc, cfg, call>>

\* a worker takes a message off its queue
Receive(w, m) ==
  /\ pc[w] = "idle"
  /\ queue[m] > 0
  /\ queue' = [queue EXCEPT ![m] = @ - 1]
  /\ msg' = [msg EXCEPT ![w] = m]
  /\ pc' = [pc EXCEPT ![w] = "check"]
  /\ UNCHANGED <<stores, lockDoc, cfg, call>>

\* the handler of worker w returns: nil is acknowledged and the message removed,
\* an error puts the message back on its queue for redelivery
Return(w, outcome) ==
  /\ pc' = [pc EXCEPT ![w] = "idle"]
  /\ msg' = [msg EXCEPT ![w] = NoMsg]
  /\ lockDoc' = [lockDoc EXCEPT ![w] = NoLock]
  /\ queue' = IF outcome = "ack" THEN queue ELSE [queue EXCEPT ![msg[w]] = @ + 1]
  /\ UNCHANGED <<cfg, call>>

\* the handler of worker w goes on to its next step
Goto(w, next) ==
  /\ pc' = [pc EXCEPT ![w] = next]
  /\ UNCHANGED <<queue, msg, cfg, call>>

\* "ack", "retry", or the next step of the handler
Continue(w, next) ==
  IF next \in {"ack", "retry"}
    THEN Return(w, next)
    ELSE Goto(w, next) /\ UNCHANGED lockDoc

\* outcome of the first step of each handler: load the delegation, classify the event
ClassifyActive(h) == IF IsDelegationPresent(h) THEN "ack" ELSE "stats_lock"

ClassifyExpired(kind, h) ==
  IF GetDelegation(h) = "not_found" THEN "retry"
  ELSE IF OutdatedForUnbonded(delegations[h]) THEN "ack"
  ELSE IF QualifiedToUnbonded(kind, delegations[h]) THEN "stats_lock"
  ELSE "retry"

\* faulty variant: the unbonding-confirmed event goes through the stats calculation
ClassifyUnbondingMutantCountsStats(h) ==
  IF GetDelegation(h) = "not_found" THEN "retry"
  ELSE IF QualifiedToUnbonding(delegations[h]) THEN "stats_lock"
  ELSE "ack"
ClassifyUnbonding(h) ==
  IF GetDelegation(h) = "not_found" THEN "retry"
  ELSE IF QualifiedToUnbonding(delegations[h]) THEN "mutate"
  ELSE "ack"

ClassifyWithdraw(h) ==
  IF GetDelegation(h) = "not_found" THEN "retry"
  ELSE IF OutdatedForWithdraw(delegations[h]) THEN "ack"
  ELSE IF QualifiedToWithdraw(delegations[h]) THEN "mutate"
  ELSE "retry"

CheckActive(w) ==
  /\ pc[w] = "check" /\ Kind(msg[w]) = "active"
  /\ Continue(w, ClassifyActive(HashOf(msg[w])))
  /\ UNCHANGED stores

CheckExpired(w) ==
  /\ pc[w] = "check" /\ Kind(msg[w]) \in {"expired_active", "expired_unbonding"}
  /\ Continue(w, ClassifyExpired(Kind(msg[w]), HashOf(msg[w])))
  /\ UNCHANGED stores

CheckUnbonding(w) ==
  /\ pc[w] = "check" /\ Kind(msg[w]) = "unbonding"
  /\ Continue(w, ClassifyUnbonding(HashOf(msg[w])))
  /\ UNCHANGED stores

CheckWithdraw(w) ==
  /\ pc[w] = "check" /\ Kind(msg[w]) = "withdraw"
  /\ Continue(w, ClassifyWithdraw(HashOf(msg[w])))
  /\ UNCHANGED stores

\* ProcessStakingStatsCalculation: fetch or create the lock document
StatsLock(w) ==
  /\ pc[w] = "stats_lock"
  /\ LET id == constructStatsLockId(HashOf(msg[w]), LabelOf(msg[w])) IN
       /\ statsLock' = GetOrCreateStatsLock(statsLock, id)
       /\ lockDoc' = [lockDoc EXCEPT ![w] = statsLock'[id]]
  /\ Goto(w, "stats_fp")
  /\ UNCHANGED <<delegations, overallStats, fpStats, ledger>>

\* the history of committed shard upserts after a stats call
Committed(h, label, field, err) ==
  IF err = "nil" THEN [ledger EXCEPT ![<<h, label, field>>] = @ + 1] ELSE ledger

\* how ProcessStakingStatsCalculation goes on after a stats call: NotFoundError
\* means already processed and is not an error
AfterStats(err, next) == IF err \in {"nil", "not_found"} THEN next ELSE "retry"

\* Increment/SubtractFinalityProviderStats, skipped when the lock document read
\* says applied
StatsFp(w) ==
  /\ pc[w] = "stats_fp"
  /\ LET h == HashOf(msg[w])
         label == LabelOf(msg[w])
         field == "finality_provider_stats"
     IN
       IF lockDoc[w][field]
         THEN /\ Goto(w, "stats_ov")
              /\ UNCHANGED <<statsLock, fpStats, ledger, lockDoc>>
         ELSE \E shard \in generateFinalityProviderShard, upsertOk \in BOOLEAN :
                LET r == IF label = Active
                           THEN IncrementFinalityProviderStats(statsLock, fpStats, h,
                                  FinalityProviderPkHex(h), StakingValue(h), shard, upsertOk)
                           ELSE SubtractFinalityProviderStats(statsLock, fpStats, h,
                                  FinalityProviderPkHex(h), StakingValue(h), shard, upsertOk)
                IN  /\ statsLock' = r.statsLock
                    /\ fpStats' = r.shards
                    /\ ledger' = Committed(h, label, field, r.err)
                    /\ Continue(w, AfterStats(r.err, "stats_ov"))
  /\ UNCHANGED <<delegations, overallStats>>

\* Increment/SubtractOverallStats, skipped when the lock document read says applied
StatsOverall(w) ==
  /\ pc[w] = "stats_ov"
  /\ LET h == HashOf(msg[w])
         label == LabelOf(msg[w])
         field == "overall_stats"
     IN
       IF lockDoc[w][field]
         THEN /\ Goto(w, "mutate")
              /\ UNCHANGED <<statsLock, overallStats, ledger, lockDoc>>
         ELSE \E shard \in generateOverallStatsId, upsertOk \in BOOLEAN :
                LET r == IF label = Active
                           THEN IncrementOverallStats(statsLock, overallStats, h,
                                  StakingValue(h), shard, upsertOk)
                           ELSE SubtractOverallStats(statsLock, overallStats, h,
                                  StakingValue(h), shard, upsertOk)
                IN  /\ statsLock' = r.statsLock
                    /\ overallStats' = r.shards
                    /\ ledger' = Committed(h, label, field, r.err)
                    /\ Continue(w, AfterStats(r.err, "mutate"))
  /\ UNCHANGED <<delegations, fpStats>>

\* last step of a handler: the delegation store mutation
MutateActiveWith(w, dbErr) ==
  /\ pc[w] = "mutate" /\ Kind(msg[w]) = "active"
  /\ delegations' = IF dbErr = "nil"
                      THEN DbSaveActiveStakingDelegation(delegations, HashOf(msg[w]))
                      ELSE delegations
  /\ Return(w, IF SaveActiveStakingDelegation(dbErr) = "nil" THEN "ack" ELSE "retry")
  /\ UNCHANGED <<statsLock, overallStats, fpStats, ledger>>

MutateActive(w) ==
  /\ pc[w] = "mutate" /\ Kind(msg[w]) = "active"
  /\ \E dbErr \in DbSaveErrors(delegations, HashOf(msg[w])) : MutateActiveWith(w, dbErr)

MutateExpired(w) ==
  /\ pc[w] = "mutate" /\ Kind(msg[w]) \in {"expired_active", "expired_unbonding"}
  /\ LET h == HashOf(msg[w]) IN
       /\ delegations' = TransitionToUnbondedState(delegations, h, Kind(msg[w]))
       /\ Return(w, IF QualifiedToUnbonded(Kind(msg[w]), delegations[h])
                      THEN "ack" ELSE "retry")
  /\ UNCHANGED <<statsLock, overallStats, fpStats, ledger>>

MutateUnbonding(w) ==
  /\ pc[w] = "mutate" /\ Kind(msg[w]) = "unbonding"
  /\ LET h == HashOf(msg[w]) IN
       /\ delegations' = TransitionToUnbondingState(delegations, h)
       /\ Return(w, IF QualifiedToUnbonding(delegations[h]) THEN "ack" ELSE "retry")
  /\ UNCHANGED <<statsLock, overallStats, fpStats, ledger>>

MutateWithdraw(w) ==
  /\ pc[w] = "mutate" /\ Kind(msg[w]) = "withdraw"
  /\ LET h == HashOf(msg[w]) IN
       /\ delegations' = TransitionToWithdrawnState(delegations, h)
       /\ Return(w, IF QualifiedToWithdraw(delegations[h]) THEN "ack" ELSE "retry")
  /\ UNCHANGED <<statsLock, overallStats, fpStats, ledger>>

\* a storage call of the handler fails, or the worker stops, before its next step:
\* nothing is written and the message is redelivered
Fail(w) ==
  /\ pc[w] \in {"check", "stats_lock", "stats_fp", "stats_ov", "mutate"}
  /\ Return(w, "retry")
  /\ UNCHANGED stores

Handler(w) ==
  \/ CheckActive(w)
  \/ CheckExpired(w)
  \/ CheckUnbonding(w)
  \/ CheckWithdraw(w)
  \/ StatsLock(w)
  \/ StatsFp(w)
  \/ StatsOverall(w)
  \/ MutateActive(w)
  \/ MutateExpired(w)
  \/ MutateUnbonding(w)
  \/ MutateWithdraw(w)

\* two workers on the events of one staking transaction
Next ==
  \/ \E m \in EventKinds \X HandledHashes : Send(m)
  \/ \E h \in HandledHashes : UnbondDelegation(h)
  \/ \E w \in Workers, m \in EventKinds \X HandledHashes : Receive(w, m)
  \/ \E w \in Workers : Handler(w)
  \/ \E w \in Workers : Fail(w)
Spec == Init /\ [][Next]_vars

(* ------------------ the stats calls of the db package ------------------ *)

CallGetOrCreateStatsLock(h, label) ==
  /\ statsLock' = GetOrCreateStatsLock(statsLock, constructStatsLockId(h, label))
  /\ UNCHANGED <<delegations, overallStats, fpStats, ledger, queue, pc, msg, lockDoc, cfg, call>>

CallIncrementOverallStats(h) ==
  \E shard \in generateOverallStatsId, upsertOk \in BOOLEAN :
    LET r == IncrementOverallStats(statsLock, overallStats, h, StakingValue(h),
                                   shard, upsertOk)
    IN  /\ statsLock' = r.statsLock
        /\ overallStats' = r.shards
        /\ ledger' = Committed(h, Active, "overall_stats", r.err)
        /\ UNCHANGED <<delegations, fpStats, queue, pc, msg, lockDoc, cfg, call>>

CallSubtractOverallStats(h) ==
  \E shard \in generateOverallStatsId, upsertOk \in BOOLEAN :
    LET r == SubtractOverallStats(statsLock, overallStats, h, StakingValue(h),
                                  shard, upsertOk)
    IN  /\ statsLock' = r.statsLock
        /\ overallStats' = r.shards
        /\ ledger' = Committed(h, Unbonded, "overall_stats", r.err)
        /\ UNCHANGED <<delegations, fpStats, queue, pc, msg, lockDoc, cfg, call>>

CallIncrementFinalityProviderStats(h) ==
  \E shard \in generateFinalityProviderShard, upsertOk \in BOOLEAN :
    LET r == IncrementFinalityProviderStats(statsLock, fpStats, h,
               FinalityProviderPkHex(h), StakingValue(h), shard, upsertOk)
    IN  /\ statsLock' = r.statsLock
        /\ fpStats' = r.shards
        /\ ledger' = Committed(h, Active, "finality_provider_stats", r.err)
        /\ UNCHANGED <<delegations, overallStats, queue, pc, msg, lockDoc, cfg, call>>

CallSubtractFinalityProviderStats(h) ==
  \E shard \in generateFinalityProviderShard, upsertOk \in BOOLEAN :
    LET r == SubtractFinalityProviderStats(statsLock, fpStats, h,
               FinalityProviderPkHex(h), StakingValue(h), shard, upsertOk)
    IN  /\ statsLock' = r.statsLock
        /\ fpStats' = r.shards
        /\ ledger' = Committed(h, Unbonded, "finality_provider_stats", r.err)
        /\ UNCHANGED <<delegations, overallStats, queue, pc, msg, lockDoc, cfg, call>>

\* any caller, any order of the stats calls, on several staking transactions
NextDb ==
  \/ \E h \in Hashes, label \in Labels : CallGetOrCreateStatsLock(h, label)
  \/ \E h \in Hashes : CallIncrementOverallStats(h)
  \/ \E h \in Hashes : CallSubtractOverallStats(h)
  \/ \E h \in Hashes : CallIncrementFinalityProviderStats(h)
  \/ \E h \in Hashes : CallSubtractFinalityProviderStats(h)
SpecDb == Init /\ [][NextDb]_vars

(* ------------- redeployment with a larger shard count ------------------ *)

\* the service is redeployed with db.cfg.LogicalShardCount raised to n
IncreaseShardCount(n) ==
  /\ n > cfg.LogicalShardCount
  /\ n <= LogicalShardCount + MaxShardIncrease
  /\ cfg' = [cfg EXCEPT !.LogicalShardCount = n]
  /\ UNCHANGED <<stores, queue, pc, msg, lockDoc, call>>

\* the overall stats calls, before and after redeployments
NextShard ==
  \/ \E h \in Hashes, label \in Labels : CallGetOrCreateStatsLock(h, label)
  \/ \E h \in Hashes : CallIncrementOverallStats(h)
  \/ \E h \in Hashes : CallSubtractOverallStats(h)
  \/ \E n \in 1 .. (LogicalShardCount + MaxShardIncrease) : IncreaseShardCount(n)
SpecShard == Init /\ [][NextShard]_vars

(* --------------------------- the query service ------------------------- *)

Stakers == {"stA", "stB"}

\* ActiveStakingEvent.StakerPkHex of the staking tx: both are staked by stA
StakerPkHex(h) == "stA"

\* ActiveStakingEvent.StakingStartTimestamp of the staking tx
StakingStartTimestamp(h) == IF h = "h1" THEN 1 ELSE 2
Timestamps == 0 .. 3

\* the order in which a listing returns the documents
HashOrder == <<"h1", "h2">>
Position(h) == CHOOSE i \in 1 .. Len(HashOrder) : HashOrder[i] = h

\* pagination tokens: none (first page), resume after a document, and one that
\* does not decode
NoToken == <<>>
TokenAfter(h) == <<"after", h>>
GarbageToken == <<"garbage">>
PageTokens == {NoToken, GarbageToken} \cup {TokenAfter(h) : h \in Hashes}
ValidToken(t) == t = NoToken \/ \E h \in Hashes : t = TokenAfter(h)

\* the state argument of a listing; "" is no filter
StateArgs == {"", Active, UnbondingRequested}

\* types.Error values
NilError == [status |-> 0, code |-> "nil"]
BadRequestError == [status |-> 400, code |-> "BAD_REQUEST"]
NotFoundError == [status |-> 404, code |-> "NOT_FOUND"]
InternalServiceError == [status |-> 500, code |-> "INTERNAL_SERVICE_ERROR"]

\* faulty variant: no storage error is recognised as not-found
IsNotFoundErrorMutantNever(err) == FALSE
IsNotFoundError(err) == err = "not_found"
IsInvalidPaginationTokenError(err) == err = "invalid_pagination_token"

\* a Go slice: nil, or a list of items
NilSlice == [nil |-> TRUE, items |-> <<>>]
Slice(items) == [nil |-> FALSE, items |-> items]

\* V1DBClient.FindDelegationByTxHashHex: the document, not-found, or a failure
FindDelegationByTxHashHex(dels, h, fault) ==
  IF fault THEN [doc |-> NoDoc, err |-> "transient"]
  ELSE IF dels[h] = NoDoc THEN [doc |-> NoDoc, err |-> "not_found"]
  ELSE [doc |-> dels[h], err |-> "nil"]

\* V1DBClient.FindDelegationsByStakerPk: the token is validated, then the
\* query returns one page of the staker's documents in order, after the
\* position the token names, and the token of the next page
FindDelegationsByStakerPk(dels, stakerPk, states, pageToken, fault) ==
  IF ~ValidToken(pageToken)
    THEN [Data |-> <<>>, PaginationToken |-> NoToken, err |-> "invalid_pagination_token"]
  ELSE IF fault
    THEN [Data |-> <<>>, PaginationToken |-> NoToken, err |-> "transient"]
  ELSE
    LET start == IF pageToken = NoToken THEN 1 ELSE Position(pageToken[2]) + 1
        Match(h) == /\ dels[h] # NoDoc
                    /\ StakerPkHex(h) = stakerPk
                    /\ (states = {} \/ dels[h].state \in states)
                    /\ Position(h) >= start
        matching == SelectSeq(HashOrder, Match)
        n == IF Len(matching) > MaxPaginationLimit
               THEN MaxPaginationLimit ELSE Len(matching)
        page == SubSeq(matching, 1, n)
    IN  [Data |-> [i \in 1 .. n |-> [hash |-> page[i], doc |-> dels[page[i]]]],
         PaginationToken |-> IF Len(matching) > n THEN TokenAfter(page[n]) ELSE NoToken,
         err |-> "nil"]

\* V1DBClient.CheckDelegationExistByStakerPk
CheckDelegationExistByStakerPk(dels, stakerPk, states, afterTimestamp, fault) ==
  IF fault THEN [exists |-> FALSE, err |-> "transient"]
  ELSE [exists |-> \E h \in Hashes :
                     /\ dels[h] # NoDoc
                     /\ StakerPkHex(h) = stakerPk
                     /\ dels[h].state \in states
                     /\ StakingStartTimestamp(h) >= afterTimestamp,
        err |-> "nil"]

\* FromDelegationDocument
FromDelegationDocument(d) ==
  [StakingTxHashHex |-> d.hash,
   StakerPkHex |-> StakerPkHex(d.hash),
   FinalityProviderPkHex |-> FinalityProviderPkHex(d.hash),
   StakingValue |-> StakingValue(d.hash),
   State |-> d.doc.state]

\* faulty variant: an invalid pagination token is reported as an internal error
DelegationsByStakerPkMutantInternalError(dels, stakerPk, state, pageToken, fault) ==
  LET filter == IF state # "" THEN {state} ELSE {}
      resultMap == FindDelegationsByStakerPk(dels, stakerPk, filter, pageToken, fault)
  IN  IF resultMap.err # "nil"
        THEN [delegations |-> NilSlice, token |-> NoToken, error |-> InternalServiceError]
        ELSE [delegations |->
                Slice([i \in 1 .. Len(resultMap.Data) |->
                         FromDelegationDocument(resultMap.Data[i])]),
              token |-> resultMap.PaginationToken,
              error |-> NilError]
\* V1Service.DelegationsByStakerPk
DelegationsByStakerPk(dels, stakerPk, state, pageToken, fault) ==
  LET filter == IF state # "" THEN {state} ELSE {}
      resultMap == FindDelegationsByStakerPk(dels, stakerPk, filter, pageToken, fault)
  IN  IF resultMap.err # "nil"
        THEN IF IsInvalidPaginationTokenError(resultMap.err)
               THEN [delegations |-> NilSlice, token |-> NoToken,
                     error |-> BadRequestError]
               ELSE [delegations |-> NilSlice, token |-> NoToken,
                     error |-> InternalServiceError]
        ELSE [delegations |->
                Slice([i \in 1 .. Len(resultMap.Data) |->
                         FromDelegationDocument(resultMap.Data[i])]),
              token |-> resultMap.PaginationToken,
              error |-> NilError]

\* what a query leaves alone: everything but the record of the call
QueryFrame == UNCHANGED <<stores, queue, pc, msg, lockDoc, cfg>>

\* V1Service.GetDelegation
QueryGetDelegation(h) ==
  \E fault \in BOOLEAN :
    LET r == FindDelegationByTxHashHex(delegations, h, fault)
        res == IF r.err # "nil"
                 THEN IF IsNotFoundError(r.err)
                        THEN [delegation |-> NoDoc, error |-> NotFoundError]
                        ELSE [delegation |-> NoDoc, error |-> InternalServiceError]
                 ELSE [delegation |-> r.doc, error |-> NilError]
    IN  /\ call' = [op |-> "GetDelegation", args |-> <<h>>, db |-> r.err,
                    result |-> res]
        /\ QueryFrame

\* V1Service.IsDelegationPresent
QueryIsDelegationPresent(h) ==
  \E fault \in BOOLEAN :
    LET r == FindDelegationByTxHashHex(delegations, h, fault)
        res == IF r.err # "nil"
                 THEN IF IsNotFoundError(r.err)
                        THEN [present |-> FALSE, error |-> NilError]
                        ELSE [present |-> FALSE, error |-> InternalServiceError]
                 ELSE IF r.doc # NoDoc
                        THEN [present |-> TRUE, error |-> NilError]
                        ELSE [present |-> FALSE, error |-> NilError]
    IN  /\ call' = [op |-> "IsDelegationPresent", args |-> <<h>>, db |-> r.err,
                    result |-> res]
        /\ QueryFrame

\* V1Service.DelegationsByStakerPk
QueryDelegationsByStakerPk(stakerPk, state, pageToken) ==
  \E fault \in BOOLEAN :
    /\ call' = [op |-> "DelegationsByStakerPk",
                args |-> <<stakerPk, state, pageToken>>,
                result |-> DelegationsByStakerPk(delegations, stakerPk, state,
                                                 pageToken, fault)]
    /\ QueryFrame

\* V1Service.CheckStakerHasActiveDelegationByPk
QueryCheckStakerHasActiveDelegationByPk(stakerPk, afterTimestamp) ==
  \E fault \in BOOLEAN :
    LET r == CheckDelegationExistByStakerPk(delegations, stakerPk, {Active},
                                            afterTimestamp, fault)
        res == IF r.err # "nil"
                 THEN [has |-> FALSE, error |-> InternalServiceError]
                 ELSE [has |-> r.exists, error |-> NilError]
    IN  /\ call' = [op |-> "CheckStakerHasActiveDelegationByPk",
                    args |-> <<stakerPk, afterTimestamp>>, result |-> res]
        /\ QueryFrame

\* faulty variant: the read creates the documents of the shards it finds missing
QueryGetOverallStatsMutantUpserts ==
  /\ call' = [op |-> "GetOverallStats", args |-> <<>>,
              result |-> [stats |-> GetOverallStats, err |-> "nil"]]
  /\ overallStats' = [i \in DOMAIN overallStats |->
                        IF i \in Shards /\ overallStats[i] = NoDoc
                          THEN ZeroStats ELSE overallStats[i]]
  /\ UNCHANGED <<delegations, statsLock, fpStats, ledger, queue, pc, msg, lockDoc, cfg>>
\* Database.GetOverallStats: Find over the shard ids, then the sum; the Find
\* or the cursor may fail
QueryGetOverallStats ==
  \E fault \in BOOLEAN :
    /\ call' = [op |-> "GetOverallStats", args |-> <<>>,
                result |-> IF fault THEN [stats |-> NoDoc, err |-> "transient"]
                           ELSE [stats |-> GetOverallStats, err |-> "nil"]]
    /\ QueryFrame

\* Database.FindFinalityProviderStatsByPkHex
QueryFindFinalityProviderStatsByPkHex(pkHex) ==
  \E fault \in BOOLEAN :
    /\ call' = [op |-> "FindFinalityProviderStatsByPkHex", args |-> <<pkHex>>,
                result |-> IF fault THEN [stats |-> NoDoc, err |-> "transient"]
                           ELSE [stats |-> FindFinalityProviderStatsByPkHex(pkHex),
                                 err |-> "nil"]]
    /\ QueryFrame

\* the save of an active staking delegation, called by the active handler
CallSaveActiveStakingDelegation(h) ==
  \E dbErr \in DbSaveErrors(delegations, h) :
    /\ delegations' = IF dbErr = "nil"
                        THEN DbSaveActiveStakingDelegation(delegations, h)
                        ELSE delegations
    /\ UNCHANGED <<statsLock, overallStats, fpStats, ledger, queue, pc, msg, lockDoc, cfg, call>>

\* the queries of the API, between the writes of the event handlers
NextApi ==
  \/ \E h \in Hashes : CallSaveActiveStakingDelegation(h)
  \/ \E h \in HandledHashes : UnbondDelegation(h)
  \/ \E h \in HandledHashes : CallGetOrCreateStatsLock(h, Active)
  \/ \E h \in HandledHashes : CallIncrementOverallStats(h)
  \/ \E h \in HandledHashes : CallIncrementFinalityProviderStats(h)
  \/ \E h \in Hashes : QueryGetDelegation(h)
  \/ \E h \in Hashes : QueryIsDelegationPresent(h)
  \/ \E stakerPk \in Stakers, state \in StateArgs, pageToken \in PageTokens :
       QueryDelegationsByStakerPk(stakerPk, state, pageToken)
  \/ \E stakerPk \in Stakers, afterTimestamp \in Timestamps :
       QueryCheckStakerHasActiveDelegationByPk(stakerPk, afterTimestamp)
  \/ QueryGetOverallStats
  \/ \E pkHex \in SUBSET Providers : QueryFindFinalityProviderStatsByPkHex(pkHex)
SpecApi == Init /\ [][NextApi]_vars

(* ------------- the batched read of the provider stats ------------------ *)

\* the lists of provider keys a read is called with; a key may be repeated
PkHexLists == UNION {[1 .. n -> Providers] : n \in 0 .. MaxKeys}

\* the configured values of db.cfg.DbBatchSizeLimit
BatchSizeLimits == 1 .. MaxBatchSizeLimit

\* no entry yet: make(map[string]model.FinalityProviderStatsDocument)
EmptyMap == [pk \in {} |-> ZeroStats]

\* the documents one batch finds: Find with _id $in the sharded ids of the
\* keys of the batch
BatchFind(batch) ==
  LET ids == UNION {getAllShardedFinalityProviderId(batch[k]) : k \in 1 .. Len(batch)}
  IN  {id \in DOMAIN fpStats : id \in ids /\ fpStats[id] # NoDoc}

\* the loop over the documents of one batch: each is added to the entry of the
\* provider extracted from its id, a new entry starting from the document
SumIntoMap(m, found) ==
  LET keys == {extractFinalityProviderPkHexFromStatsId(id) : id \in found}
      Of(pk) == {id \in found : extractFinalityProviderPkHexFromStatsId(id) = pk}
  IN  [pk \in (DOMAIN m) \cup keys |->
         IF pk \in DOMAIN m
           THEN AddStats(m[pk], SumDocs(fpStats, Of(pk)))
           ELSE SumDocs(fpStats, Of(pk))]

\* a read is between its first and its last statement
InBatchLoop == call.op = "FindFinalityProviderStatsByPkHex" /\ ~call.returned

\* FindFinalityProviderStatsByPkHex is called: the map is made and the batch
\* size read from the configuration
BatchStart(pkHex, batchSize) ==
  /\ ~InBatchLoop
  /\ call' = [op |-> "FindFinalityProviderStatsByPkHex", args |-> <<pkHex>>,
              batchSize |-> batchSize, i |-> 0,
              finalityProvidersMap |-> EmptyMap, returned |-> FALSE]
  /\ QueryFrame

\* one iteration of the loop "for i := 0; i < len(pkHex); i += batchSize"
BatchIterate ==
  /\ InBatchLoop
  /\ LET pkHex == call.args[1]
         end == IF call.i + call.batchSize > Len(pkHex)
                  THEN Len(pkHex) ELSE call.i + call.batchSize
         batch == SubSeq(pkHex, call.i + 1, end)
     IN  /\ call.i < Len(pkHex)
         /\ call' = [call EXCEPT
                       !.finalityProvidersMap = SumIntoMap(@, BatchFind(batch)),
                       !.i = @ + call.batchSize]
  /\ QueryFrame

\* the loop condition fails: return finalityProvidersMap, nil
BatchReturn ==
  /\ InBatchLoop
  /\ call.i >= Len(call.args[1])
  /\ call' = [call EXCEPT !.returned = TRUE]
  /\ QueryFrame

\* provider stats are written between the reads, and read in batches
NextBatch ==
  \/ \E h \in Hashes : ~InBatchLoop /\ CallGetOrCreateStatsLock(h, Active)
  \/ \E h \in Hashes : ~InBatchLoop /\ CallIncrementFinalityProviderStats(h)
  \/ \E pkHex \in PkHexLists, batchSize \in BatchSizeLimits : BatchStart(pkHex, batchSize)
  \/ BatchIterate
  \/ BatchReturn
SpecBatch == Init /\ [][NextBatch]_vars

(* ------------- the ids of the provider stats documents ----------------- *)

\* strings are sequences of characters; a provider key is made of hex
\* characters (one stands for all) but may be any string
Colon == ":"
PkChars == {"a", Colon}
IdChars == {"a", Colon, "0"}
StringsOver(chars, n) == UNION {[1 .. k -> chars] : k \in 0 .. n}
PkStrings == StringsOver(PkChars, MaxPkLen)
IdStrings == StringsOver(IdChars, MaxIdLen)

\* the decimal digits of fmt's %d
DigitChar(d) ==
  CASE d = 0 -> "0" [] d = 1 -> "1" [] d = 2 -> "2" [] d = 3 -> "3" [] d = 4 -> "4"
    [] d = 5 -> "5" [] d = 6 -> "6" [] d = 7 -> "7" [] d = 8 -> "8" [] d = 9 -> "9"
RECURSIVE Decimal(_)
Decimal(n) == IF n < 10 THEN <<DigitChar(n)>> ELSE Decimal(n \div 10) \o <<DigitChar(n % 10)>>

\* fmt.Sprintf("%s:%d", finalityProviderPkHex, shard)
SprintfStatsId(finalityProviderPkHex, shard) ==
  finalityProviderPkHex \o <<Colon>> \o Decimal(shard)

\* strings.Split(id, ":")
RECURSIVE Split(_)
Split(id) ==
  IF \A k \in 1 .. Len(id) : id[k] # Colon THEN <<id>>
  ELSE LET k == CHOOSE j \in 1 .. Len(id) :
                  id[j] = Colon /\ \A l \in 1 .. (j - 1) : id[l] # Colon
       IN  <<SubSeq(id, 1, k - 1)>> \o Split(SubSeq(id, k + 1, Len(id)))

\* faulty variant: the number of parts is not checked
extractFromStatsIdStringMutantNoCheck(id) == [pkHex |-> Split(id)[1], err |-> "nil"]
\* extractFinalityProviderPkHexFromStatsId on the string form of the id
extractFromStatsIdString(id) ==
  LET parts == Split(id) IN
    IF Len(parts) # 2
      THEN [pkHex |-> <<>>, err |-> "invalid id format"]
      ELSE [pkHex |-> parts[1], err |-> "nil"]

\* getAllShardedFinalityProviderId on strings: the ids of every shard of every
\* key of the list
getAllShardedIdStrings(finalityProviderPkHex) ==
  {SprintfStatsId(finalityProviderPkHex[k], i) :
     k \in 1 .. Len(finalityProviderPkHex), i \in Shards}

\* generateFinalityProviderStatsId is called for a provider key
CallGenerateFinalityProviderStatsId(pk) ==
  \E randomShardNum \in generateFinalityProviderShard :
    /\ call' = [op |-> "generateFinalityProviderStatsId", args |-> <<pk>>,
                result |-> SprintfStatsId(pk, randomShardNum)]
    /\ QueryFrame

\* extractFinalityProviderPkHexFromStatsId is called for the id of a document
CallExtractFinalityProviderPkHexFromStatsId(id) ==
  /\ call' = [op |-> "extractFinalityProviderPkHexFromStatsId", args |-> <<id>>,
              result |-> extractFromStatsIdString(id)]
  /\ QueryFrame

\* the loop of FindFinalityProviderStatsByPkHex over the documents found for
\* one key: the first id that does not parse ends the read with its error
CallFindWithIds(pk, found) ==
  /\ found \subseteq getAllShardedIdStrings(<<pk>>)
  /\ found # {}
  /\ LET failed == {id \in found : extractFromStatsIdString(id).err # "nil"} IN
       call' = [op |-> "FindFinalityProviderStatsByPkHex", args |-> <<pk>>,
                found |-> found,
                result |-> IF failed # {}
                             THEN [keys |-> {}, isNil |-> TRUE, err |-> "invalid id format"]
                             ELSE [keys |-> {extractFromStatsIdString(id).pkHex : id \in found},
                                   isNil |-> FALSE, err |-> "nil"]]
  /\ QueryFrame

\* the id functions called with any key and any id
NextId ==
  \/ \E pk \in PkStrings : CallGenerateFinalityProviderStatsId(pk)
  \/ \E id \in IdStrings : CallExtractFinalityProviderPkHexFromStatsId(id)
  \/ \E pk \in PkStrings :
       \E found \in SUBSET getAllShardedIdStrings(<<pk>>) : CallFindWithIds(pk, found)
SpecId == Init /\ [][NextId]_vars

(* ------------- the stats calls for any staking value ------------------- *)

\* staking values (uint64 amounts, in words of WordBits bits): the least, the
\* greatest, and the values around half the unsigned range
Amounts ==
  {0, 1, 2 ^ (WordBits - 1) - 1, 2 ^ (WordBits - 1), 2 ^ WordBits - 1}

\* the active staking event in flight carries the staking value
EventInFlight == call.op = "ActiveStakingEvent"

\* an active staking event of value amount arrives for a staking tx
AmountEvent(h, amount) ==
  /\ call = NoCall
  /\ call' = [op |-> "ActiveStakingEvent", StakingTxHashHex |-> h,
              StakingValue |-> amount]
  /\ QueryFrame

\* both stats families have counted the delegation as active
CountedAsActive(h) ==
  LET doc == statsLock[constructStatsLockId(h, Active)]
  IN  doc # NoDoc /\ doc.overall_stats /\ doc.finality_provider_stats

\* the lock of the removal is created by the timelock-expired event, which
\* follows the active staking event of the delegation
AmountGetOrCreateStatsLock(label) ==
  /\ EventInFlight
  /\ label = Unbonded => CountedAsActive(call.StakingTxHashHex)
  /\ CallGetOrCreateStatsLock(call.StakingTxHashHex, label)

\* the stats calculation of the active staking event
AmountIncrementOverallStats ==
  /\ EventInFlight
  /\ \E shard \in generateOverallStatsId, upsertOk \in BOOLEAN :
       LET h == call.StakingTxHashHex
           r == IncrementOverallStats(statsLock, overallStats, h, call.StakingValue,
                                      shard, upsertOk)
       IN  /\ statsLock' = r.statsLock
           /\ overallStats' = r.shards
           /\ ledger' = Committed(h, Active, "overall_stats", r.err)
  /\ UNCHANGED <<delegations, fpStats, queue, pc, msg, lockDoc, cfg, call>>

AmountIncrementFinalityProviderStats ==
  /\ EventInFlight
  /\ \E shard \in generateFinalityProviderShard, upsertOk \in BOOLEAN :
       LET h == call.StakingTxHashHex
           r == IncrementFinalityProviderStats(statsLock, fpStats, h,
                  FinalityProviderPkHex(h), call.StakingValue, shard, upsertOk)
       IN  /\ statsLock' = r.statsLock
           /\ fpStats' = r.shards
           /\ ledger' = Committed(h, Active, "finality_provider_stats", r.err)
  /\ UNCHANGED <<delegations, overallStats, queue, pc, msg, lockDoc, cfg, call>>

\* the stats calculation of the timelock-expired event of the same delegation,
\* which the handler reaches only for a delegation that was counted as active
AmountSubtractOverallStats ==
  /\ EventInFlight
  /\ \E shard \in generateOverallStatsId, upsertOk \in BOOLEAN :
       LET h == call.StakingTxHashHex
           r == SubtractOverallStats(statsLock, overallStats, h, call.StakingValue,
                                     shard, upsertOk)
       IN  /\ statsLock' = r.statsLock
           /\ overallStats' = r.shards
           /\ ledger' = Committed(h, Unbonded, "overall_stats", r.err)
  /\ UNCHANGED <<delegations, fpStats, queue, pc, msg, lockDoc, cfg, call>>

AmountSubtractFinalityProviderStats ==
  /\ EventInFlight
  /\ \E shard \in generateFinalityProviderShard, upsertOk \in BOOLEAN :
       LET h == call.StakingTxHashHex
           r == SubtractFinalityProviderStats(statsLock, fpStats, h,
                  FinalityProviderPkHex(h), call.StakingValue, shard, upsertOk)
       IN  /\ statsLock' = r.statsLock
           /\ fpStats' = r.shards
           /\ ledger' = Committed(h, Unbonded, "finality_provider_stats", r.err)
  /\ UNCHANGED <<delegations, overallStats, queue, pc, msg, lockDoc, cfg, call>>

\* one delegation of any staking value: counted as active, then removed
NextAmount ==
  \/ \E h \in HandledHashes, amount \in Amounts : AmountEvent(h, amount)
  \/ \E label \in Labels : AmountGetOrCreateStatsLock(label)
  \/ AmountIncrementOverallStats
  \/ AmountIncrementFinalityProviderStats
  \/ AmountSubtractOverallStats
  \/ AmountSubtractFinalityProviderStats
SpecAmount == Init /\ [][NextAmount]_vars

(* ---- the staking path under fair scheduling, without storage failures --- *)

StakingPathKinds == {"active", "expired_active", "withdraw"}

\* the stats calls and the save succeed
StatsFpOk(w) == StatsFp(w) /\ pc'[w] = "stats_ov"
StatsOverallOk(w) == StatsOverall(w) /\ pc'[w] = "mutate"
MutateActiveOk(w) == MutateActive(w) /\ queue' = queue

NextLive ==
  \/ \E m \in StakingPathKinds \X HandledHashes : Send(m)
  \/ \E m \in StakingPathKinds \X HandledHashes : Receive("w1", m)
  \/ CheckActive("w1")
  \/ CheckExpired("w1")
  \/ CheckWithdraw("w1")
  \/ StatsLock("w1")
  \/ StatsFpOk("w1")
  \/ StatsOverallOk("w1")
  \/ MutateActiveOk("w1")
  \/ MutateExpired("w1")
  \/ MutateWithdraw("w1")

\* the worker keeps running its handler; the transport delivers every message
\* that stays or comes back on a queue
Fairness ==
  /\ WF_vars(CheckActive("w1") \/ CheckExpired("w1") \/ CheckWithdraw("w1"))
  /\ WF_vars(StatsLock("w1") \/ StatsFpOk("w1") \/ StatsOverallOk("w1"))
  /\ WF_vars(MutateActiveOk("w1") \/ MutateExpired("w1") \/ MutateWithdraw("w1"))
  /\ \A m \in StakingPathKinds \X HandledHashes : SF_vars(Receive("w1", m))

SpecLive == Init /\ [][NextLive]_vars /\ Fairness

(* ------------------------------- claims -------------------------------- *)

\* message m is on its queue or being processed
Pending(m) == queue[m] > 0 \/ \E w \in Workers : msg[w] = m

\* number of copies of m on its queue or being processed
Copies(m) == queue[m] + Cardinality({w \in Workers : msg[w] = m})

\* the family flag of the lock record of (h, label) is set
Flag(h, label, f) ==
  LET id == constructStatsLockId(h, label) IN
    statsLock[id] # NoDoc /\ statsLock[id][f]

ScaleStats(k, a) ==
  [active_tvl |-> k * a.active_tvl, total_tvl |-> k * a.total_tvl,
   active_delegations |-> k * a.active_delegations,
   total_delegations |-> k * a.total_delegations]

\* the net effect of the committed upserts of family f for the hashes hs
RECURSIVE LedgerStats(_, _)
LedgerStats(f, hs) ==
  IF hs = {} THEN ZeroStats
  ELSE LET h == CHOOSE x \in hs : TRUE IN
         AddStats(
           AddStats(ScaleStats(ledger[<<h, Active, f>>], IncrementUpdate(StakingValue(h))),
                    ScaleStats(ledger[<<h, Unbonded, f>>], SubtractUpdate(StakingValue(h)))),
           LedgerStats(f, hs \ {h}))

HashesOf(pk) == {h \in Hashes : FinalityProviderPkHex(h) = pk}

\* the shard documents hold exactly the committed upserts
ShardsMatchLedger ==
  /\ GetOverallStats = LedgerStats("overall_stats", Hashes)
  /\ \A pk \in Providers :
       FindFinalityProviderStats(pk) = LedgerStats("finality_provider_stats", HashesOf(pk))

\* worker w takes a step of its handler
Steps(w) == pc'[w] # pc[w]

\* the handler of worker w returns and its message is acknowledged / requeued
Acked(w) == pc'[w] = "idle" /\ queue' = queue
Requeued(w) == pc'[w] = "idle" /\ queue' = [queue EXCEPT ![msg[w]] = @ + 1]

\* C1: whatever the order and the redeliveries of the events, the ledger receives
\* exactly one delta per classification change of a delegation and family: at
\* most one "add to active" and one "remove from active" delta ever, exactly one
\* "add" once the delegation document exists, exactly one "remove" once it is
\* Unbonded or Withdrawn, and the shards hold nothing but these deltas.
C1_OneDeltaPerClassificationChange ==
  /\ \A h \in Hashes, f \in StatsFamilies :
       /\ ledger[<<h, Active, f>>] <= 1
       /\ ledger[<<h, Unbonded, f>>] <= 1
       /\ StateOf(h) # NoState => ledger[<<h, Active, f>>] = 1
       /\ StateOf(h) \in {Unbonded, Withdrawn} => ledger[<<h, Unbonded, f>>] = 1
  /\ ShardsMatchLedger

\* a redelivered timelock-expired event went through the stats step after the
\* delegation became Unbonded
C1_Witness ==
  /\ StateOf("h1") = Unbonded
  /\ \E w \in Workers : msg[w] = <<"expired_active", "h1">> /\ pc[w] = "mutate"
  /\ ledger[<<"h1", Unbonded, "overall_stats">>] = 1

\* C2: a step of the withdraw handler taken while the delegation is Active (or
\* UnbondingRequested) changes no store and returns the message for redelivery;
\* the state becomes Withdrawn only from Unbonded, by an acknowledged step of a
\* withdraw handler, and Withdrawn is never left, so it is entered exactly once.
C2_WithdrawWaitsForExpiry ==
  [][\A h \in Hashes :
       /\ \A w \in Workers :
            (msg[w] = <<"withdraw", h>> /\ Steps(w)
               /\ StateOf(h) \in {Active, UnbondingRequested})
              => (UNCHANGED stores /\ Requeued(w))
       /\ (StateOf(h) # Withdrawn /\ StateOf(h)' = Withdrawn)
            => /\ StateOf(h) = Unbonded
               /\ \E w \in Workers : msg[w] = <<"withdraw", h>> /\ Acked(w)
       /\ StateOf(h) = Withdrawn => StateOf(h)' = Withdrawn]_vars

\* a withdraw event is being processed while the delegation is Active and its
\* timelock-expired event is still waiting
C2_Witness ==
  /\ StateOf("h1") = Active
  /\ \E w \in Workers : msg[w] = <<"withdraw", "h1">> /\ pc[w] = "check"
  /\ queue[<<"expired_active", "h1">>] > 0

\* C3: on the staking path, under fair redelivery, a withdraw event that is
\* pending while the delegation is Active and its timelock-expired event is
\* pending leads to state Withdrawn; and a pending withdraw event is only ever
\* removed once the delegation is Withdrawn.
C3_EarlyWithdrawEventuallyWithdrawn ==
  /\ \A h \in HandledHashes :
       (StateOf(h) = Active /\ Pending(<<"withdraw", h>>)
          /\ Pending(<<"expired_active", h>>))
         ~> (StateOf(h) = Withdrawn)
  /\ [][\A h \in HandledHashes :
          Copies(<<"withdraw", h>>)' < Copies(<<"withdraw", h>>)
            => StateOf(h)' = Withdrawn]_vars

\* the early withdraw event was handed back and waits while the
\* timelock-expired event is in its stats step
C3_Witness ==
  /\ StateOf("h1") = Active
  /\ queue[<<"withdraw", "h1">>] > 0
  /\ msg["w1"] = <<"expired_active", "h1">> /\ pc["w1"] = "stats_ov"

\* C4: the first step of the withdraw handler on a delegation that is already
\* Withdrawn changes no store and acknowledges the message: it is removed, not
\* put back on the withdraw queue.
C4_WithdrawnWithdrawIsAcked ==
  [][\A w \in Workers, m \in Messages :
       (msg[w] = m /\ CheckWithdraw(w) /\ StateOf(HashOf(m)) = Withdrawn)
         => /\ UNCHANGED stores
            /\ Acked(w)
            /\ Copies(m)' = Copies(m) - 1]_vars

\* a withdraw event is delivered after the delegation was withdrawn
C4_Witness ==
  /\ StateOf("h1") = Withdrawn
  /\ \E w \in Workers : msg[w] = <<"withdraw", "h1">> /\ pc[w] = "check"

\* C5: every step of the active-staking handler taken while a document for the
\* hash exists leaves the delegation store, the lock registry and every shard
\* unchanged; the first step, and the save that meets the duplicate key,
\* acknowledge the message (success, not a failure).
C5_DuplicateActiveIsNoOp ==
  [][\A w \in Workers :
       (Kind(msg[w]) = "active" /\ IsDelegationPresent(HashOf(msg[w])) /\ Steps(w))
         => /\ UNCHANGED stores
            /\ (CheckActive(w) \/ MutateActiveWith(w, "duplicate_key")) => Acked(w)]_vars

\* an active-staking event that passed the presence check reaches the save
\* after another delivery of it created the document
C5_Witness ==
  /\ IsDelegationPresent("h1")
  /\ \E w \in Workers : msg[w] = <<"active", "h1">> /\ pc[w] = "mutate"

\* C6: with two workers on the same active-staking event, once the delegation
\* document exists the global and the provider's aggregates hold exactly one
\* increment (total count 1, total TVL v; active count 1 and active TVL v until
\* the removal for Unbonded is applied), in every interleaving.
C6_ConcurrentActiveCountsOnce ==
  \A h \in HandledHashes :
    IsDelegationPresent(h) =>
      LET g == GetOverallStats
          p == FindFinalityProviderStats(FinalityProviderPkHex(h))
          v == StakingValue(h)
      IN  /\ g.total_delegations = 1 /\ g.total_tvl = v
          /\ p.total_delegations = 1 /\ p.total_tvl = v
          /\ ~Flag(h, Unbonded, "overall_stats")
               => g.active_delegations = 1 /\ g.active_tvl = v
          /\ ~Flag(h, Unbonded, "finality_provider_stats")
               => p.active_delegations = 1 /\ p.active_tvl = v

\* both workers went through the stats steps of the same event; one has saved
\* the document, the other is about to meet the duplicate key
C6_Witness ==
  /\ IsDelegationPresent("h1")
  /\ msg["w1"] = NoMsg
  /\ msg["w2"] = <<"active", "h1">> /\ pc["w2"] = "mutate"
  /\ GetOverallStats.total_delegations = 1

\* C7: in every reachable state, also after failed upserts and stopped
\* handlers, a family's lock flag is set if and only if its delta was committed
\* to exactly one shard, and the shards hold nothing but the committed deltas.
C7_LockFlagIffDelta ==
  /\ \A h \in Hashes, label \in Labels, f \in StatsFamilies :
       /\ Flag(h, label, f) <=> ledger[<<h, label, f>>] = 1
       /\ ledger[<<h, label, f>>] <= 1
  /\ ShardsMatchLedger

\* a handler stopped after the provider's delta and before the overall one: the
\* message is back on the queue, one flag is set, the other is not
C7_Witness ==
  /\ \A w \in Workers : pc[w] = "idle"
  /\ queue[<<"active", "h1">>] > 0
  /\ Flag("h1", Active, "finality_provider_stats")
  /\ ~Flag("h1", Active, "overall_stats")
  /\ GetOverallStats = ZeroStats

\* accepted increments / decrements of the overall family
AcceptedActive == {h \in Hashes : Flag(h, Active, "overall_stats")}
AcceptedUnbonded == {h \in Hashes : Flag(h, Unbonded, "overall_stats")}

\* C8: after N accepted Active creations of value v and M <= N accepted Unbonded
\* transitions the summed global aggregate is activeTvl = (N-M)*v,
\* totalTvl = N*v, activeCount = N-M, totalCount = N, whatever shards were hit.
C8_AggregateAfterNAndM ==
  LET N == Cardinality(AcceptedActive)
      M == Cardinality(AcceptedUnbonded)
      v == StakingValue("h1")
  IN  M <= N =>
        GetOverallStats =
          [active_tvl |-> (N - M) * v, total_tvl |-> N * v,
           active_delegations |-> N - M, total_delegations |-> N]

\* two creations on different shards and one removal
C8_Witness ==
  /\ Cardinality(AcceptedActive) = 2
  /\ Cardinality(AcceptedUnbonded) = 1
  /\ overallStats[0] # NoDoc /\ overallStats[1] # NoDoc
  /\ overallStats[0].total_delegations = 1 /\ overallStats[1].total_delegations = 1

\* C9: a flag of a lock record that is true stays true in every step, and a
\* flip attempt on a flag that is true returns NotFoundError and leaves the
\* lock collection as it is.
C9_LockFlagsOnlyRise ==
  [][\A h \in Hashes, label \in Labels, f \in StatsFamilies :
       Flag(h, label, f) =>
         /\ Flag(h, label, f)'
         /\ updateStatsLockByFieldName(statsLock, h, label, f)
              = [statsLock |-> statsLock, err |-> "not_found"]
         /\ GetOrCreateStatsLock(statsLock, constructStatsLockId(h, label)) = statsLock]_vars

\* both flags of a record are set, and the record of the other transition exists
C9_Witness ==
  /\ Flag("h1", Active, "overall_stats")
  /\ Flag("h1", Active, "finality_provider_stats")
  /\ statsLock[constructStatsLockId("h1", Unbonded)] = NewStatsLockDocument

\* C10: no step moves the state of a delegation to an earlier state of
\* Active -> UnbondingRequested -> Unbonded -> Withdrawn, a document is never
\* removed, and Withdrawn is never left.
C10_LifecycleMonotonic ==
  [][\A h \in Hashes :
       /\ Rank(StateOf(h)') >= Rank(StateOf(h))
       /\ StateOf(h) = Withdrawn => StateOf(h)' = Withdrawn]_vars

\* a timelock-expired event that was accepted while the delegation was Active
\* reaches its state update after the delegation was withdrawn
C10_Witness ==
  /\ StateOf("h1") = Withdrawn
  /\ \E w \in Workers : msg[w] = <<"expired_active", "h1">> /\ pc[w] = "mutate"

\* C11: the delegation collection is keyed by the staking tx hash, so a hash has
\* at most one document; no step removes a document, and a document appears
\* only by the insert of an active-staking handler, in state Active, when the
\* hash had none (the count of documents of a hash goes 0 -> 1 and stays 1).
C11_OneDocumentNeverDeleted ==
  [][\A h \in Hashes :
       /\ IsDelegationPresent(h) => IsDelegationPresent(h)'
       /\ (~IsDelegationPresent(h) /\ IsDelegationPresent(h)')
            => /\ delegations'[h] = NewDelegationDocument
               /\ \E w \in Workers : msg[w] = <<"active", h>> /\ MutateActiveWith(w, "nil")]_vars

\* the active-staking event is redelivered after the delegation went through
\* expiry and withdraw
C11_Witness ==
  /\ StateOf("h1") = Withdrawn
  /\ \E w \in Workers : msg[w] = <<"active", "h1">> /\ pc[w] = "check"
\* the step changes the summed global counts by da (active) and dt (total)
OverallChange(da, dt) ==
  /\ GetOverallStats'.active_delegations = GetOverallStats.active_delegations + da
  /\ GetOverallStats'.total_delegations = GetOverallStats.total_delegations + dt

\* worker w's stats step commits its delta
CommitsOverall(w) == StatsOverall(w) /\ ledger' # ledger

\* C12: on the staking path each event delivered in order is accepted and has
\* its effect: the active-staking event of a new hash goes on to the stats, adds
\* 1 to the global active (and total) count and creates the document in state
\* Active; the timelock-expired event (tx type active) on an Active delegation
\* subtracts 1 from the active count, leaves the total count, and moves the
\* delegation to Unbonded; the withdraw event on an Unbonded delegation moves it
\* to Withdrawn and changes no aggregate.
C12_StakingPathInOrder ==
  [][\A w \in Workers, h \in HandledHashes :
       /\ (msg[w] = <<"active", h>> /\ StateOf(h) = NoState) =>
            /\ CheckActive(w) => pc'[w] = "stats_lock"
            /\ CommitsOverall(w) => OverallChange(1, 1)
            /\ MutateActiveWith(w, "nil") =>
                 /\ StateOf(h)' = Active /\ Acked(w)
                 /\ GetOverallStats'.active_delegations = 1
                 /\ GetOverallStats'.total_delegations = 1
       /\ (msg[w] = <<"expired_active", h>> /\ StateOf(h) = Active) =>
            /\ CheckExpired(w) => pc'[w] = "stats_lock"
            /\ CommitsOverall(w) => OverallChange(-1, 0)
            /\ MutateExpired(w) =>
                 /\ StateOf(h)' = Unbonded /\ Acked(w)
                 /\ GetOverallStats'.active_delegations = 0
                 /\ GetOverallStats'.total_delegations = 1
       /\ (msg[w] = <<"withdraw", h>> /\ StateOf(h) = Unbonded) =>
            /\ CheckWithdraw(w) => pc'[w] = "mutate"
            /\ MutateWithdraw(w) =>
                 /\ StateOf(h)' = Withdrawn /\ Acked(w)
                 /\ UNCHANGED <<overallStats, fpStats>>]_vars

\* the withdraw event of a delegation that went Active -> Unbonded is at its
\* state update; the global counts are active 0, total 1
C12_Witness ==
  /\ StateOf("h1") = Unbonded
  /\ \E w \in Workers : msg[w] = <<"withdraw", "h1">> /\ pc[w] = "mutate"
  /\ GetOverallStats.active_delegations = 0
  /\ GetOverallStats.total_delegations = 1
\* C13: on the unbonding path each event delivered in order is accepted and has
\* its effect: an Active delegation becomes UnbondingRequested only by the API
\* unbonding request or an unbonding-confirmed event; after the request the
\* unbonding-confirmed event is accepted and leaves the state before Unbonded;
\* the timelock-expired event (tx type unbonding) is accepted and moves the
\* delegation to Unbonded; the withdraw event then moves it to Withdrawn; the
\* document is there after every one of these steps.
C13_UnbondingPathInOrder ==
  [][\A w \in Workers, h \in HandledHashes :
       /\ (StateOf(h) = Active /\ StateOf(h)' = UnbondingRequested)
            => \/ UnbondDelegation(h)
               \/ \E v \in Workers : msg[v] = <<"unbonding", h>> /\ MutateUnbonding(v)
       /\ (msg[w] = <<"unbonding", h>> /\ StateOf(h) = UnbondingRequested) =>
            /\ CheckUnbonding(w) => pc'[w] = "mutate"
            /\ MutateUnbonding(w) => StateOf(h)' = UnbondingRequested /\ Acked(w)
       /\ (msg[w] = <<"expired_unbonding", h>> /\ StateOf(h) = UnbondingRequested) =>
            /\ CheckExpired(w) => pc'[w] = "stats_lock"
            /\ MutateExpired(w) => StateOf(h)' = Unbonded /\ Acked(w)
       /\ (msg[w] = <<"withdraw", h>> /\ StateOf(h) = Unbonded) =>
            /\ CheckWithdraw(w) => pc'[w] = "mutate"
            /\ MutateWithdraw(w) => StateOf(h)' = Withdrawn /\ Acked(w)
       /\ IsDelegationPresent(h) => IsDelegationPresent(h)']_vars

\* after the unbonding request and the unbonding-confirmed event, the
\* timelock-expired event of the unbonding tx is at its state update while the
\* withdraw event waits
C13_Witness ==
  /\ StateOf("h1") = UnbondingRequested
  /\ \E w \in Workers : msg[w] = <<"expired_unbonding", "h1">> /\ pc[w] = "mutate"
  /\ queue[<<"withdraw", "h1">>] > 0
\* C14: every step of a timelock-expired handler taken while the delegation is
\* Unbonded or Withdrawn changes no store (the state stays, no shard counter is
\* decremented again), and its first step acknowledges the event as a duplicate.
C14_ExpiredDuplicateIgnored ==
  [][\A w \in Workers, h \in HandledHashes :
       (/\ Kind(msg[w]) \in {"expired_active", "expired_unbonding"}
        /\ HashOf(msg[w]) = h
        /\ StateOf(h) \in {Unbonded, Withdrawn}
        /\ Steps(w))
         => /\ UNCHANGED stores
            /\ CheckExpired(w) => Acked(w)]_vars

\* a timelock-expired handler that read the lock record before the removal was
\* applied is about to call SubtractOverallStats on a delegation that another
\* delivery already moved to Unbonded
C14_Witness ==
  /\ StateOf("h1") = Unbonded
  /\ \E w \in Workers :
       /\ msg[w] = <<"expired_active", "h1">> /\ pc[w] = "stats_ov"
       /\ ~lockDoc[w].overall_stats
\* the summed active aggregates of some family drop in the step
ActiveAggregatesDrop ==
  /\ <<overallStats, fpStats>>' # <<overallStats, fpStats>>
  /\ \/ GetOverallStats'.active_delegations < GetOverallStats.active_delegations
     \/ GetOverallStats'.active_tvl < GetOverallStats.active_tvl
     \/ \E pk \in Providers :
          \/ FindFinalityProviderStats(pk)'.active_delegations
               < FindFinalityProviderStats(pk).active_delegations
          \/ FindFinalityProviderStats(pk)'.active_tvl
               < FindFinalityProviderStats(pk).active_tvl

\* C15: no step of an unbonding-confirmed handler changes a lock record or a
\* shard, and none moves the delegation to Unbonded: accepted in state Active or
\* UnbondingRequested it leaves the delegation UnbondingRequested (unbonding
\* fields recorded) and is acknowledged.  The active aggregates drop only in a
\* stats step of a timelock-expired handler, the transition into Unbonded.
C15_UnbondingConfirmedKeepsAggregates ==
  [][/\ \A w \in Workers, h \in HandledHashes :
          (msg[w] = <<"unbonding", h>> /\ Steps(w)) =>
            /\ UNCHANGED <<statsLock, overallStats, fpStats, ledger>>
            /\ StateOf(h)' \in {StateOf(h), UnbondingRequested}
            /\ (StateOf(h) \in {Active, UnbondingRequested} /\ MutateUnbonding(w))
                 => StateOf(h)' = UnbondingRequested /\ Acked(w)
     /\ ActiveAggregatesDrop =>
          \E w \in Workers :
            /\ Kind(msg[w]) \in {"expired_active", "expired_unbonding"}
            /\ StatsFp(w) \/ StatsOverall(w)]_vars

\* an unbonding-confirmed event accepted in state Active is at its state
\* update; the delegation is still counted as active
C15_Witness ==
  /\ StateOf("h1") = Active
  /\ \E w \in Workers : msg[w] = <<"unbonding", "h1">> /\ pc[w] = "mutate"
  /\ GetOverallStats.active_delegations = 1
\* what a stats call returns when its delta is already applied: NotFoundError,
\* lock records and shards as they were
AlreadyProcessed(shards) == [statsLock |-> statsLock, shards |-> shards, err |-> "not_found"]

\* what a first stats call returns: nil, the flag of the family set, one shard
\* document changed by the delta d
FirstApplied(r, shards, id, label, h, f, d) ==
  /\ r.err = "nil"
  /\ r.statsLock = [statsLock EXCEPT ![constructStatsLockId(h, label)][f] = TRUE]
  /\ r.shards[id] = AddStats(IF shards[id] = NoDoc THEN ZeroStats ELSE shards[id], d)
  /\ \A i \in DOMAIN shards : i # id => r.shards[i] = shards[i]

\* the lock record of (h, label) exists and its flag of family f is not set
Unapplied(h, label, f) ==
  statsLock[constructStatsLockId(h, label)] # NoDoc /\ ~Flag(h, label, f)

\* C16: each of IncrementOverallStats, SubtractOverallStats,
\* IncrementFinalityProviderStats, SubtractFinalityProviderStats is idempotent
\* per staking tx hash: with the lock record created, a call whose flag is not
\* set applies its delta to one shard and sets the flag; once the flag is set
\* every call, whatever shard it draws, returns NotFoundError and leaves every
\* shard document and the lock records unchanged; so no delta is committed twice.
C16_StatsCallsIdempotent ==
  \A h \in Hashes, shard \in Shards, upsertOk \in BOOLEAN :
    LET v == StakingValue(h)
        pk == FinalityProviderPkHex(h)
        add == [active_tvl |-> v, total_tvl |-> v,
                active_delegations |-> 1, total_delegations |-> 1]
        sub == [active_tvl |-> -v, total_tvl |-> 0,
                active_delegations |-> -1, total_delegations |-> 0]
        incO == IncrementOverallStats(statsLock, overallStats, h, v, shard, upsertOk)
        subO == SubtractOverallStats(statsLock, overallStats, h, v, shard, upsertOk)
        incP == IncrementFinalityProviderStats(statsLock, fpStats, h, pk, v, shard, upsertOk)
        subP == SubtractFinalityProviderStats(statsLock, fpStats, h, pk, v, shard, upsertOk)
        fpId == FinalityProviderStatsId(pk, shard)
    IN  /\ Flag(h, Active, "overall_stats") => incO = AlreadyProcessed(overallStats)
        /\ Flag(h, Unbonded, "overall_stats") => subO = AlreadyProcessed(overallStats)
        /\ Flag(h, Active, "finality_provider_stats") => incP = AlreadyProcessed(fpStats)
        /\ Flag(h, Unbonded, "finality_provider_stats") => subP = AlreadyProcessed(fpStats)
        /\ (upsertOk /\ Unapplied(h, Active, "overall_stats"))
             => FirstApplied(incO, overallStats, shard, Active, h, "overall_stats", add)
        /\ (upsertOk /\ Unapplied(h, Unbonded, "overall_stats"))
             => FirstApplied(subO, overallStats, shard, Unbonded, h, "overall_stats", sub)
        /\ (upsertOk /\ Unapplied(h, Active, "finality_provider_stats"))
             => FirstApplied(incP, fpStats, fpId, Active, h, "finality_provider_stats", add)
        /\ (upsertOk /\ Unapplied(h, Unbonded, "finality_provider_stats"))
             => FirstApplied(subP, fpStats, fpId, Unbonded, h, "finality_provider_stats", sub)
        /\ \A label \in Labels, f \in StatsFamilies : ledger[<<h, label, f>>] <= 1

\* each of the four operations has been applied once for h1; every further
\* call for h1 is a repeated one
C16_Witness ==
  \A label \in Labels, f \in StatsFamilies :
    Flag("h1", label, f) /\ ledger[<<"h1", label, f>>] = 1
\* the fan-in read of a deployment whose shard count is n
FanIn(n) == SumDocs(overallStats, {i \in DOMAIN overallStats : i \in 0 .. (n - 1)})

\* C17: raising the shard count preserves the logical aggregates: every shard
\* document written has a key below the shard count in force, so the read of
\* the running deployment, and the read under any larger shard count, sums
\* every committed delta; a redeployment with a larger count returns the same
\* totals as before it.
C17_ShardIncreasePreservesAggregates ==
  /\ [](/\ \A i \in DOMAIN overallStats : overallStats[i] # NoDoc => i \in Shards
        /\ GetOverallStats = LedgerStats("overall_stats", Hashes)
        /\ \A n \in cfg.LogicalShardCount .. (LogicalShardCount + MaxShardIncrease) :
             FanIn(n) = GetOverallStats)
  /\ [][(cfg' # cfg) =>
          /\ cfg'.LogicalShardCount > cfg.LogicalShardCount
          /\ GetOverallStats' = GetOverallStats]_vars

\* after a redeployment with a larger shard count a delta went to a shard of
\* the old range and another to a shard only the new range has
C17_Witness ==
  /\ cfg.LogicalShardCount > LogicalShardCount
  /\ overallStats[0] # NoDoc
  /\ overallStats[LogicalShardCount] # NoDoc
\* what a lookup of the providers pks shows for provider pk
ProviderView(pks, pk) ==
  LET r == FindFinalityProviderStatsByPkHex(pks) IN
    IF pk \in DOMAIN r THEN r[pk] ELSE NoDoc

QueryStep ==
  \/ \E h \in Hashes : QueryGetDelegation(h)
  \/ \E h \in Hashes : QueryIsDelegationPresent(h)
  \/ \E stakerPk \in Stakers, state \in StateArgs, pageToken \in PageTokens :
       QueryDelegationsByStakerPk(stakerPk, state, pageToken)
  \/ \E stakerPk \in Stakers, afterTimestamp \in Timestamps :
       QueryCheckStakerHasActiveDelegationByPk(stakerPk, afterTimestamp)
  \/ QueryGetOverallStats
  \/ \E pkHex \in SUBSET Providers : QueryFindFinalityProviderStatsByPkHex(pkHex)

\* a step after which another call, or another result, is on record
CallRecorded == call'.op # call.op \/ call' # call

\* C19: a step of GetDelegation, IsDelegationPresent, DelegationsByStakerPk,
\* CheckStakerHasActiveDelegationByPk, GetOverallStats or
\* FindFinalityProviderStatsByPkHex, whatever result or error it returns,
\* leaves the delegation store, the lock registry and every stats shard as
\* they were.
C19_QueriesLeaveStoresUnchanged ==
  [][QueryStep \/ CallRecorded =>
       /\ delegations' = delegations
       /\ statsLock' = statsLock
       /\ overallStats' = overallStats
       /\ fpStats' = fpStats]_vars

\* a query has returned an error over stores that hold a delegation, a lock
\* record and documents in both stats collections
C19_Witness ==
  /\ call.op = "GetOverallStats"
  /\ call.result.err = "transient"
  /\ delegations["h1"] # NoDoc
  /\ statsLock[constructStatsLockId("h1", Active)] # NoDoc
  /\ \E i \in Shards : overallStats[i] # NoDoc
  /\ \E id \in DOMAIN fpStats : fpStats[id] # NoDoc
\* C20: a listing by staker whose pagination token fails validation returns
\* Bad Request with no page and no cursor, and only such a listing does; any
\* other storage failure returns the internal error, also without page or
\* cursor; a success returns a page, which may be empty with an empty cursor;
\* the three outcomes differ.
C20_InvalidTokenIsBadRequest ==
  call.op = "DelegationsByStakerPk" =>
    LET pageToken == call.args[3]
        r == call.result
    IN  /\ r.error \in {NilError, BadRequestError, InternalServiceError}
        /\ ~ValidToken(pageToken) =>
             /\ r.error = BadRequestError
             /\ r.error.status = 400
             /\ r.delegations.nil
             /\ r.token = NoToken
        /\ r.error = BadRequestError => ~ValidToken(pageToken)
        /\ r.error = InternalServiceError =>
             /\ r.error # BadRequestError
             /\ r.delegations.nil
             /\ r.token = NoToken
        /\ r.error = NilError =>
             /\ ~r.delegations.nil
             /\ Len(r.delegations.items) <= MaxPaginationLimit
             /\ r.token # NoToken => Len(r.delegations.items) > 0
             /\ r # [delegations |-> NilSlice, token |-> NoToken,
                     error |-> BadRequestError]

\* staker stA, who has two delegations on record, lists them with a token that
\* does not decode
C20_Witness ==
  /\ call.op = "DelegationsByStakerPk"
  /\ call.args = <<"stA", "", GarbageToken>>
  /\ call.result.error = BadRequestError
  /\ delegations["h1"] # NoDoc
  /\ delegations["h2"] # NoDoc
\* C21: a point lookup by tx hash: when the storage lookup finds no document,
\* GetDelegation returns no document and the NotFound (404) error, not the
\* internal error, and IsDelegationPresent returns (false, no error); when it
\* finds the document, GetDelegation returns that document without error and
\* IsDelegationPresent returns (true, no error); IsDelegationPresent returns
\* true only when a document for the hash exists, and without a storage
\* failure exactly then.
C21_PointLookupOutcomes ==
  [][\A h \in Hashes :
       /\ (CallRecorded /\ call'.op = "GetDelegation" /\ call'.args = <<h>>) =>
            LET r == call'.result IN
              /\ delegations[h] = NoDoc => call'.db \in {"not_found", "transient"}
              /\ delegations[h] # NoDoc => call'.db \in {"nil", "transient"}
              /\ call'.db = "not_found" =>
                   /\ r = [delegation |-> NoDoc, error |-> NotFoundError]
                   /\ r.error.status = 404
                   /\ r.error # InternalServiceError
              /\ call'.db = "nil" =>
                   r = [delegation |-> delegations[h], error |-> NilError]
              /\ call'.db = "transient" =>
                   r = [delegation |-> NoDoc, error |-> InternalServiceError]
       /\ (CallRecorded /\ call'.op = "IsDelegationPresent" /\ call'.args = <<h>>) =>
            LET r == call'.result IN
              /\ call'.db = "not_found" => r = [present |-> FALSE, error |-> NilError]
              /\ call'.db = "nil" => r = [present |-> TRUE, error |-> NilError]
              /\ call'.db = "transient" =>
                   r = [present |-> FALSE, error |-> InternalServiceError]
              /\ r.present => delegations[h] # NoDoc
              /\ r.error = NilError => (r.present <=> delegations[h] # NoDoc)]_vars

\* GetDelegation has answered not-found for h2 while the document of h1 exists
C21_Witness ==
  /\ call.op = "GetDelegation"
  /\ call.args = <<"h2">>
  /\ call.result.error = NotFoundError
  /\ delegations["h1"] # NoDoc
  /\ delegations["h2"] = NoDoc
\* the aggregates of one delegation of value v that was counted and then
\* removed from active once
RemovedOnce(v) ==
  [active_tvl |-> 0, total_tvl |-> v, active_delegations |-> 0, total_delegations |-> 1]

\* C22: with two workers on the same timelock-expired event of an Active
\* delegation, in every interleaving: no view ever shows the active count or
\* the active TVL decremented twice; a worker's event is acknowledged only when
\* the delegation is Unbonded (or later); and once the delegation is Unbonded
\* the global and the provider's view show active count 0 and active TVL 0,
\* with total count 1 and total TVL v unchanged.
C22_ConcurrentExpiredCountsOnce ==
  /\ [](\A h \in HandledHashes :
          LET g == GetOverallStats
              p == FindFinalityProviderStats(FinalityProviderPkHex(h))
              v == StakingValue(h)
          IN  /\ g.active_delegations \in {0, 1} /\ g.active_tvl \in {0, v}
              /\ p.active_delegations \in {0, 1} /\ p.active_tvl \in {0, v}
              /\ StateOf(h) \in {Unbonded, Withdrawn} =>
                   g = RemovedOnce(v) /\ p = RemovedOnce(v))
  /\ [][\A w \in Workers, h \in Hashes :
          (msg[w] = <<"expired_active", h>> /\ Acked(w)) =>
            StateOf(h)' \in {Unbonded, Withdrawn}]_vars

\* both workers took the same expired event while the delegation was Active:
\* one has set the state to Unbonded and returned, the other is past the stats
\* step and about to attempt the transition
C22_Witness ==
  /\ StateOf("h1") = Unbonded
  /\ msg["w1"] = NoMsg
  /\ msg["w2"] = <<"expired_active", "h1">> /\ pc["w2"] = "mutate"
  /\ queue[<<"expired_active", "h1">>] = 0
  /\ GetOverallStats = RemovedOnce(StakingValue("h1"))
\* C23: GetOrCreateStatsLock is insert-if-absent: called by a worker for a key
\* with no record it creates the record of that key with every family flag
\* false and returns it; called for a key with a record, by either worker and
\* whatever flags were flipped since, it changes nothing and returns the
\* stored flags; it never touches the record of another key, and no step ever
\* resets a flag or removes a record.
C23_GetOrCreateIsInsertIfAbsent ==
  /\ [][\A w \in Workers, h \in Hashes, label \in Labels :
          (/\ pc[w] = "stats_lock" /\ pc'[w] = "stats_fp"
           /\ HashOf(msg[w]) = h /\ LabelOf(msg[w]) = label) =>
            LET id == constructStatsLockId(h, label) IN
              /\ statsLock[id] = NoDoc =>
                   /\ statsLock'[id] # NoDoc
                   /\ \A f \in StatsFamilies : statsLock'[id][f] = FALSE
                   /\ statsLock'[id].staker_stats = FALSE
              /\ statsLock[id] # NoDoc => statsLock'[id] = statsLock[id]
              /\ lockDoc'[w] = statsLock'[id]
              /\ \A other \in LockIds \ {id} : statsLock'[other] = statsLock[other]]_vars
  /\ [][\A id \in LockIds :
          statsLock[id] # NoDoc =>
            /\ statsLock'[id] # NoDoc
            /\ \A f \in StatsFamilies : statsLock[id][f] => statsLock'[id][f]]_vars

\* both workers are on the same active event: w1 has flipped the provider
\* flag, then w2 fetched the record and was handed the flipped flag
C23_Witness ==
  /\ msg["w1"] = <<"active", "h1">> /\ pc["w1"] = "stats_ov"
  /\ msg["w2"] = <<"active", "h1">> /\ pc["w2"] = "stats_fp"
  /\ lockDoc["w2"].finality_provider_stats = TRUE
  /\ lockDoc["w2"].overall_stats = FALSE
\* no lock record exists for (h, label)
NoLockRecord(h, label) == statsLock[constructStatsLockId(h, label)] = NoDoc

\* C25: a stats update for (tx hash, transition) whose lock record was never
\* created is rejected like an already applied one: updateStatsLockByFieldName
\* returns NotFoundError, each of the four operations returns NotFoundError
\* with every shard document and every lock record as they were, and nothing
\* was ever committed for that key; a step commits a delta or changes a shard
\* only for a key whose lock record existed before the step.
C25_MissingLockRecordRejected ==
  /\ [](\A h \in Hashes, shard \in Shards, upsertOk \in BOOLEAN :
          LET v == StakingValue(h)
              pk == FinalityProviderPkHex(h)
          IN  /\ NoLockRecord(h, Active) =>
                   /\ IncrementOverallStats(statsLock, overallStats, h, v, shard, upsertOk)
                        = AlreadyProcessed(overallStats)
                   /\ IncrementFinalityProviderStats(statsLock, fpStats, h, pk, v,
                                                     shard, upsertOk)
                        = AlreadyProcessed(fpStats)
              /\ NoLockRecord(h, Unbonded) =>
                   /\ SubtractOverallStats(statsLock, overallStats, h, v, shard, upsertOk)
                        = AlreadyProcessed(overallStats)
                   /\ SubtractFinalityProviderStats(statsLock, fpStats, h, pk, v,
                                                    shard, upsertOk)
                        = AlreadyProcessed(fpStats)
              /\ \A label \in Labels, f \in StatsFamilies :
                   NoLockRecord(h, label) =>
                     /\ updateStatsLockByFieldName(statsLock, h, label, f)
                          = [statsLock |-> statsLock, err |-> "not_found"]
                     /\ ledger[<<h, label, f>>] = 0)
  /\ [][/\ \A h \in Hashes, label \in Labels, f \in StatsFamilies :
             ledger'[<<h, label, f>>] # ledger[<<h, label, f>>] => ~NoLockRecord(h, label)
        /\ <<overallStats, fpStats>>' # <<overallStats, fpStats>> =>
             \E h \in Hashes, label \in Labels, f \in StatsFamilies :
               /\ ~NoLockRecord(h, label)
               /\ ledger'[<<h, label, f>>] = ledger[<<h, label, f>>] + 1]_vars

\* the deltas of h1 are applied while no lock record was created for h2: the
\* stats calls for h2 are rejected in this state
C25_Witness ==
  /\ NoLockRecord("h2", Active) /\ NoLockRecord("h2", Unbonded)
  /\ Flag("h1", Active, "overall_stats") /\ Flag("h1", Active, "finality_provider_stats")
  /\ GetOverallStats.total_delegations = 1
\* the flags of the lock records other than family f of record (h, label)
OtherFlags(locks, h, label, f) ==
  [id \in LockIds |->
     IF locks[id] = NoDoc THEN NoDoc
     ELSE IF id = constructStatsLockId(h, label)
       THEN [g \in (DOMAIN locks[id]) \ {f} |-> locks[id][g]]
     ELSE locks[id]]

\* C26: the idempotency gates are independent per transition and per family:
\* the lock key of the Active transition of a tx hash differs from the one of
\* its Unbonded transition; a step that flips a flag flips exactly one family
\* flag of exactly one record; with the lock record present and a family's
\* flag not set, that family's call is accepted whatever the other flags of
\* the same record and of the other transition's record are; so each family's
\* delta is applied at most once, and exactly once when its flag is set, in
\* whatever order the families and the transitions are updated.
C26_GatesIndependent ==
  /\ [](\A h \in Hashes :
          /\ constructStatsLockId(h, Active) # constructStatsLockId(h, Unbonded)
          /\ \A label \in Labels, f \in StatsFamilies :
               /\ ledger[<<h, label, f>>] = (IF Flag(h, label, f) THEN 1 ELSE 0)
               /\ Unapplied(h, label, f) =>
                    LET r == updateStatsLockByFieldName(statsLock, h, label, f) IN
                      /\ r.err = "nil"
                      /\ r.statsLock[constructStatsLockId(h, label)][f]
                      /\ OtherFlags(r.statsLock, h, label, f)
                           = OtherFlags(statsLock, h, label, f))
  /\ [][\A h \in Hashes, label \in Labels, f \in StatsFamilies :
          (~Flag(h, label, f) /\ Flag(h, label, f)') =>
            /\ OtherFlags(statsLock', h, label, f) = OtherFlags(statsLock, h, label, f)
            /\ ledger' = [ledger EXCEPT ![<<h, label, f>>] = @ + 1]]_vars

\* for h1 the Active increment of both families is applied and the Unbonded
\* decrement of the provider family too, before the overall one; for h2 the
\* overall family was updated first and the provider family not yet
C26_Witness ==
  /\ Flag("h1", Active, "overall_stats") /\ Flag("h1", Active, "finality_provider_stats")
  /\ Flag("h1", Unbonded, "finality_provider_stats") /\ ~Flag("h1", Unbonded, "overall_stats")
  /\ Flag("h2", Active, "overall_stats") /\ ~Flag("h2", Active, "finality_provider_stats")
  /\ statsLock[constructStatsLockId("h2", Active)] # NoDoc
\* what a read of the keys pkHex should return: an entry for each key with a
\* written shard, holding the sum of its documents over all shards
SummedPerProvider(pkHex) ==
  LET keys == {pkHex[k] : k \in 1 .. Len(pkHex)}
      written == {pk \in keys : \E i \in Shards : fpStats[<<pk, i>>] # NoDoc}
  IN  [pk \in written |-> SumDocs(fpStats, {<<pk, i>> : i \in Shards})]

\* C29: FindFinalityProviderStatsByPkHex terminates for every list of provider
\* keys and every configured batch size limit (each iteration of its loop moves
\* the index forward, towards the end of the list), and what it returns does
\* not depend on the batch size: each key with a written shard maps to the sum
\* of its four counters over all its shards, a key with no written shard is
\* absent from the map.
C29_BatchedReadSumsPerProvider ==
  /\ [][(InBatchLoop /\ call'.i # call.i) =>
          call'.i > call.i /\ call.i < Len(call.args[1])]_vars
  /\ [][(InBatchLoop /\ call'.returned) =>
          call'.finalityProvidersMap = SummedPerProvider(call.args[1])]_vars
\* the number of ':' in a string
Colons(id) == Cardinality({k \in 1 .. Len(id) : id[k] = Colon})

\* C30: provider shard ids round-trip: for every provider key pk without ':'
\* and every shard index i, extractFinalityProviderPkHexFromStatsId("pk:i")
\* returns pk; every id generateFinalityProviderStatsId(pk) produces is one of
\* the ids getAllShardedFinalityProviderId([pk]) lists; an id with no ':' or
\* with more than one ':' yields an error, and a read that finds a document
\* with such an id fails as a whole, returning no map.
C30_ProviderIdsRoundTrip ==
  /\ call.op = "generateFinalityProviderStatsId" =>
       LET pk == call.args[1] IN
         /\ call.result \in getAllShardedIdStrings(<<pk>>)
         /\ Colons(pk) = 0 =>
              extractFromStatsIdString(call.result) = [pkHex |-> pk, err |-> "nil"]
  /\ call.op = "extractFinalityProviderPkHexFromStatsId" =>
       LET id == call.args[1] IN
         /\ Colons(id) # 1 => call.result.err # "nil"
         /\ \A pk \in PkStrings, i \in AllShards :
              (Colons(pk) = 0 /\ id = SprintfStatsId(pk, i)) =>
                call.result = [pkHex |-> pk, err |-> "nil"]
  /\ call.op = "FindFinalityProviderStatsByPkHex" =>
       /\ (\E id \in call.found : Colons(id) # 1) =>
            call.result.err # "nil" /\ call.result.isNil
       /\ Colons(call.args[1]) = 0 =>
            call.result = [keys |-> {call.args[1]}, isNil |-> FALSE, err |-> "nil"]

\* a read for the key "a:" found the document "a::0", whose id has two ':',
\* and failed
C30_Witness ==
  /\ call.op = "FindFinalityProviderStatsByPkHex"
  /\ call.args[1] = <<"a", Colon>>
  /\ <<"a", Colon, Colon, "0">> \in call.found
  /\ call.result.err # "nil"

(* ------------- claims about staking values of any size ------------------- *)

\* the per-provider view of provider pk: the sum of its shard documents
ProviderSum(pk) ==
  SumDocs(fpStats, {FinalityProviderStatsId(pk, i) : i \in Shards})

\* the change a committed increment of the unsigned value v is to make
AddsExactly(v) ==
  [active_tvl |-> v, total_tvl |-> v, active_delegations |-> 1, total_delegations |-> 1]

\* the change a committed decrement of the unsigned value v is to make
RemovesExactly(v) ==
  [active_tvl |-> -v, total_tvl |-> 0, active_delegations |-> -1, total_delegations |-> 0]

\* the stats call of (h, label) for family f commits in this step
Commits(h, label, f) == ledger'[<<h, label, f>>] = ledger[<<h, label, f>>] + 1

\* C28: for every unsigned staking value, a committed Active increment adds
\* exactly that value to active_tvl and total_tvl, and a committed Unbonded
\* decrement subtracts exactly that value from active_tvl, in the global and in
\* the per-provider accumulators: the conversion to the signed accumulator
\* preserves the value, also at or above half the unsigned range
C28_AmountConversionPreservesValue ==
  [][\A h \in HandledHashes :
       EventInFlight =>
         LET v == call.StakingValue
             pk == FinalityProviderPkHex(h)
         IN  /\ Commits(h, Active, "overall_stats") =>
                  GetOverallStats' = AddStats(GetOverallStats, AddsExactly(v))
             /\ Commits(h, Unbonded, "overall_stats") =>
                  GetOverallStats' = AddStats(GetOverallStats, RemovesExactly(v))
             /\ Commits(h, Active, "finality_provider_stats") =>
                  ProviderSum(pk)' = AddStats(ProviderSum(pk), AddsExactly(v))
             /\ Commits(h, Unbonded, "finality_provider_stats") =>
                  ProviderSum(pk)' = AddStats(ProviderSum(pk), RemovesExactly(v))]_vars

\* the counters of a shard document; a missing document counts as zero
TotalsOf(coll, id) == IF coll[id] = NoDoc THEN ZeroStats ELSE coll[id]

\* C24: total_tvl and total_delegations of every shard document, and of the
\* summed global and per-provider views, never decrease
C24_TotalsNeverDecrease ==
  [][/\ \A id \in DOMAIN overallStats :
          /\ TotalsOf(overallStats, id)'.total_tvl >= TotalsOf(overallStats, id).total_tvl
          /\ TotalsOf(overallStats, id)'.total_delegations
               >= TotalsOf(overallStats, id).total_delegations
     /\ \A id \in DOMAIN fpStats :
          /\ TotalsOf(fpStats, id)'.total_tvl >= TotalsOf(fpStats, id).total_tvl
          /\ TotalsOf(fpStats, id)'.total_delegations
               >= TotalsOf(fpStats, id).total_delegations
     /\ GetOverallStats'.total_tvl >= GetOverallStats.total_tvl
     /\ GetOverallStats'.total_delegations >= GetOverallStats.total_delegations
     /\ \A pk \in Providers :
          /\ ProviderSum(pk)'.total_tvl >= ProviderSum(pk).total_tvl
          /\ ProviderSum(pk)'.total_delegations >= ProviderSum(pk).total_delegations]_vars

\* C27: in every reachable state the summed global view satisfies
\* 0 <= active_delegations <= total_delegations and 0 <= active_tvl <= total_tvl
C27_GlobalViewWithinTotals ==
  /\ 0 <= GetOverallStats.active_delegations
  /\ GetOverallStats.active_delegations <= GetOverallStats.total_delegations
  /\ 0 <= GetOverallStats.active_tvl
  /\ GetOverallStats.active_tvl <= GetOverallStats.total_tvl
TypeOK ==
  /\ \A h \in Hashes : StateOf(h) \in {NoState, Active, UnbondingRequested, Unbonded, Withdrawn}
  /\ \A w \in Workers : pc[w] \in {"idle", "check", "stats_lock", "stats_fp", "stats_ov", "mutate"}
  /\ \A w \in Workers : (pc[w] = "idle") = (msg[w] = NoMsg)
  /\ cfg.LogicalShardCount \in LogicalShardCount .. (LogicalShardCount + MaxShardIncrease)

====
